---- MODULE Spec2Model ----
(***************************************************************************)
(* Verification model of scatter-kg-recursive:                             *)
(*   - ClusterSimulation, the discrete-event cluster simulator             *)
(*     (scripts/cluster-sim/simulate.ts, first program);                    *)
(*   - the validator's own re-implementation of the simulation              *)
(*     (scripts/cluster-sim/simulate.ts, second program);                   *)
(*   - the workflow-tree observer (scripts/diagnose-tree.ts) over a log     *)
(*     store that is updated by additive, fire-and-forget updates.          *)
(***************************************************************************)
EXTENDS Integers, Sequences, FiniteSets, TLC

VARIABLES
    pc,             \* position of run(): "init", "running", "done"
    config,         \* SimConfig
    entities,       \* data.entities: id -> [type, layer]
    similarities,   \* data.similarities: id -> sequence of peer ids, best first
    entityStates,   \* Map<string, EntityState>
    clusters,       \* Map<string, ClusterState>
    eventQueue,     \* Event[] kept sorted by time
    currentTime,
    nextClusterId,
    waitEnd,        \* per entity: what its follower_wait_ends event found
    logs,           \* the log entities of the store: id -> klados_log
    pending,        \* additive updates accepted (202) and not yet applied
    worker,         \* per log: how far its worker got, and the handoffs it fired
    observed        \* what the observer computed last (Null before it ran)

simVars == <<pc, config, entities, similarities, entityStates, clusters,
             eventQueue, currentTime, nextClusterId, waitEnd>>

obsVars == <<logs, pending, worker, observed>>

vars == <<pc, config, entities, similarities, entityStates, clusters,
          eventQueue, currentTime, nextClusterId, waitEnd, logs, pending, worker, observed>>

----------------------------------------------------------------------------
(* Bounds of the model *)

MaxLayer == 1
RandDen == 1

EntityIds == {1, 2, 3}          \* ids, ordered as localeCompare orders them
Layers == 0 .. MaxLayer
EntityTypes == {"person"}       \* setup.ts drops cluster_leader, text_chunk, scatter_job
KValues == {1, 2}
ArrivalSpreads == {0, 3}
IndexDelays == {-1, 1, 5}
RecheckDelays == {2}
FollowerWaitMins == {2}
FollowerWaitMaxs == {4}
\* random() returns num / den, 0 <= num <= den
RandomValues == {[num |-> n, den |-> RandDen] : n \in 0 .. RandDen}

Null == 0                       \* clusterId: string | null

----------------------------------------------------------------------------
(* Generic helpers *)

Min(a, b) == IF a < b THEN a ELSE b

RECURSIVE InsertByTime(_, _)
\* Array.prototype.sort is stable: an event goes behind the queued events
\* whose time is not later than its own
InsertByTime(sorted, e) ==
    IF sorted = <<>> THEN <<e>>
    ELSE IF Head(sorted).time <= e.time
         THEN <<Head(sorted)>> \o InsertByTime(Tail(sorted), e)
         ELSE <<e>> \o sorted

RECURSIVE SortByTime(_)
SortByTime(q) ==
    IF q = <<>> THEN <<>>
    ELSE InsertByTime(SortByTime(SubSeq(q, 1, Len(q) - 1)), q[Len(q)])

scheduleEvent(q, e) == SortByTime(Append(q, e))

Event(t, ty, id, cid) == [time |-> t, type |-> ty, entityId |-> id, clusterId |-> cid]

\* all sequences without repetition over a set
RECURSIVE Perms(_)
Perms(S) ==
    IF S = {} THEN {<<>>}
    ELSE UNION {{<<x>> \o p : p \in Perms(S \ {x})} : x \in S}

DistinctSeqs(S) == UNION {Perms(T) : T \in SUBSET S}

RECURSIVE SortedSeq(_)
\* the ids of a set in ascending order
SortedSeq(S) ==
    IF S = {} THEN <<>>
    ELSE LET m == CHOOSE x \in S : \A y \in S : x <= y
         IN <<m>> \o SortedSeq(S \ {m})

----------------------------------------------------------------------------
(* ClusterSimulation *)

InitialEntityState ==
    [arrived |-> FALSE, indexed |-> FALSE, clusterId |-> Null,
     isClusterLeader |-> FALSE, processing |-> FALSE,
     waitingForFollowers |-> FALSE, followerWaitStartTime |-> {}]

\* what a follower_wait_ends event found, recorded when it is processed
NoWaitEnd == [fired |-> FALSE, myClusterId |-> Null, ranFallback |-> FALSE,
              otherCluster |-> FALSE, joinable |-> FALSE, waitingPeers |-> {}]

EmptyMap == [c \in {} |-> Null]

\* the log store is not part of the simulator
NoLogs == EmptyMap
NoWorkers == EmptyMap

\* simulation-data.json as setup.ts writes it: the search that fills a
\* similarity list is filtered by the entity's layer and drops the entity itself
SimulationData(ents, sims) ==
    \A e \in EntityIds :
        \A i \in 1 .. Len(sims[e]) :
            /\ sims[e][i] # e
            /\ ents[sims[e][i]].layer = ents[e].layer

SimInit ==
    /\ pc = "init"
    /\ config \in [k : KValues, arrivalSpreadMs : ArrivalSpreads,
                   indexDelayMs : IndexDelays, recheckDelayMs : RecheckDelays,
                   followerWaitMinMs : FollowerWaitMins,
                   followerWaitMaxMs : FollowerWaitMaxs]
    /\ entities \in [EntityIds -> [type : EntityTypes, layer : Layers]]
    /\ similarities \in [EntityIds -> DistinctSeqs(EntityIds)]
    /\ SimulationData(entities, similarities)
    /\ entityStates = [e \in EntityIds |-> InitialEntityState]
    /\ clusters = EmptyMap
    /\ eventQueue = <<>>
    /\ currentTime = 0
    /\ nextClusterId = 1
    /\ waitEnd = [e \in EntityIds |-> NoWaitEnd]
    /\ logs = NoLogs /\ pending = {} /\ worker = NoWorkers /\ observed = Null

\* the mutant of getVisiblePeers: peers are visible before they are indexed
getVisiblePeers_Unindexed(entityId, layer) ==
    LET visible(s) == s \in EntityIds /\ entities[s].layer = layer
        filtered == SelectSeq(similarities[entityId], visible)
    IN SubSeq(filtered, 1, Min(config.k, Len(filtered)))

getVisiblePeers(entityId, layer) ==
    LET sims == similarities[entityId]
        visible(s) == /\ s \in EntityIds
                      /\ entities[s].layer = layer
                      /\ entityStates[s].indexed
        filtered == SelectSeq(sims, visible)
    IN SubSeq(filtered, 1, Min(config.k, Len(filtered)))

\* the mutant of findClusteredPeer: no peer is ever found
findClusteredPeer_None(peers) == <<>>

\* the first peer that has a cluster, as a sequence of at most one result
findClusteredPeer(peers) ==
    LET clustered(p) == entityStates[p].clusterId # Null
        found == SelectSeq(peers, clustered)
    IN IF found = <<>> THEN <<>>
       ELSE <<[peerId |-> Head(found), clusterId |-> entityStates[Head(found)].clusterId]>>

createCluster(cls, leaderId) ==
    [c \in (DOMAIN cls) \cup {nextClusterId} |->
        IF c = nextClusterId
        THEN [id |-> nextClusterId, leaderId |-> leaderId,
              members |-> {leaderId}, createdAt |-> currentTime]
        ELSE cls[c]]

\* joinCluster: members.add only if the cluster exists; state.clusterId always
joinClusterMembers(cls, entityId, clusterId) ==
    IF clusterId \in DOMAIN cls
    THEN [cls EXCEPT ![clusterId].members = @ \cup {entityId}]
    ELSE cls

\* parseArgs: without --seed the seed is Date.now(), any number
hasSeed == "seed" \in DOMAIN config

\* seededRandom: seed = (seed * 1103515245 + 12345) & 0x7fffffff, with the
\* mask cut from 31 bits to SeedBits
SeedBits == 3
SeedMask == 2 ^ SeedBits - 1
Seeds == 0 .. SeedMask

\* the numbers of the source are doubles: an integer below 2^53 is exact,
\* above it only every second, fourth, ... integer exists. Cut with the mask:
\* exact below SeedMask + 1
Exact == SeedMask + 1

RECURSIVE ulp(_, _)
\* the distance of neighbouring doubles at x
ulp(x, u) == IF x < Exact * u THEN u ELSE ulp(x, 2 * u)

\* the double nearest to x, ties to the even one
fl(x) ==
    LET u == ulp(x, 1)
        q == x \div u
        rem == x % u
    IN IF 2 * rem < u THEN q * u
       ELSE IF 2 * rem > u THEN (q + 1) * u
       ELSE IF q % 2 = 0 THEN q * u ELSE (q + 1) * u

\* with the source's constants no seed is stepped to 0x7fffffff: a sum from
\* 2^53 up is even, and the one seed below 2^31 that solves the congruence,
\* 230538014, has a product above 2^53; the cut generator keeps that
LcgStep(seed) ==
    fl(fl(seed * (1103515245 % (SeedMask + 1))) + (12345 % (SeedMask + 1)))
        % (SeedMask + 1)

\* seed / 0x7fffffff for every seed the mask lets through, 1 included
GeneratorValues == {[num |-> n, den |-> SeedMask] : n \in 0 .. SeedMask}

RECURSIVE advance(_, _)
\* the seed after n calls of random()
advance(seed, n) == IF n = 0 THEN seed ELSE advance(LcgStep(seed), n - 1)

\* the mutant of random: the value does not come from the seeded generator
random_Unseeded == {[num |-> n, den |-> SeedMask] : n \in {0, SeedMask}}

\* this.random(): the values the next call can return, seed / 0x7fffffff
\* for the seed after the step
random ==
    IF hasSeed THEN {[num |-> LcgStep(observed.seed), den |-> SeedMask]}
    ELSE RandomValues

\* [result[i], result[j]] = [result[j], result[i]], indices from 0; at
\* j = result.length the array grows and result[i] becomes undefined
swap(result, i, j) ==
    IF j < Len(result)
    THEN [n \in 1 .. Len(result) |->
            IF n = i + 1 THEN result[j + 1]
            ELSE IF n = j + 1 THEN result[i + 1] ELSE result[n]]
    ELSE [n \in 1 .. Len(result) + 1 |->
            IF n = i + 1 THEN Null
            ELSE IF n = j + 1 THEN result[i + 1] ELSE result[n]]

RECURSIVE shuffleFrom(_, _, _)
\* the loop of shuffle, for (i = result.length - 1; i > 0; i--), with the
\* values random() returns one after the other
shuffleFrom(result, i, values) ==
    IF i <= 0 THEN result
    ELSE LET r == Head(values)
             j == (r.num * (i + 1)) \div r.den
         IN  shuffleFrom(swap(result, i, j), i - 1, Tail(values))

\* the first n values of the generator started at seed
drawn(seed, n) == [k \in 1 .. n |-> [num |-> advance(seed, k), den |-> SeedMask]]

shuffle(array, seed) ==
    shuffleFrom(array, Len(array) - 1, drawn(seed, Len(array) - 1))

\* the recorded run: the seed of the generator and the events processed
observedAfter(ev, draws) ==
    IF hasSeed
    THEN [observed EXCEPT !.seed = advance(@, draws), !.trace = Append(@, ev)]
    ELSE observed

\* the mutant of getJitteryWait: the range counts both ends
getJitteryWait_Inclusive(r) ==
    LET range == config.followerWaitMaxMs - config.followerWaitMinMs + 1
    IN config.followerWaitMinMs + ((r.num * range) \div r.den)

\* the mutant of getJitteryWait: the wait does not start at followerWaitMinMs
getJitteryWait_NoMin(r) ==
    (r.num * (config.followerWaitMaxMs - config.followerWaitMinMs)) \div r.den

getJitteryWait(r) ==
    LET range == config.followerWaitMaxMs - config.followerWaitMinMs
    IN config.followerWaitMinMs + ((r.num * range) \div r.den)

\* mutant: the leader joins the other cluster without leaving its own
leaveMyCluster_KeepMember(cls, myClusterId, entityId) == cls

\* mutant: the member is removed but an empty cluster is not deleted
leaveMyCluster_KeepEmpty(cls, myClusterId, entityId) ==
    IF myClusterId \in DOMAIN cls
    THEN [cls EXCEPT ![myClusterId].members = @ \ {entityId}]
    ELSE cls

\* runFallback, "Remove from my cluster": members.delete, and the cluster is
\* deleted once it has no member left
leaveMyCluster(cls, myClusterId, entityId) ==
    IF myClusterId \in DOMAIN cls
    THEN LET left == cls[myClusterId].members \ {entityId}
         IN IF left = {}
            THEN [c \in (DOMAIN cls) \ {myClusterId} |-> cls[c]]
            ELSE [cls EXCEPT ![myClusterId].members = left]
    ELSE cls

\* runFallback step 1: every indexed same-layer entry of the similarity list, no K cap
\* the mutant of visibleSemanticPeers: the list is cut to the top K
visibleSemanticPeers_TopK(states, entityId, layer) ==
    LET visible(s) == /\ s \in EntityIds
                      /\ entities[s].layer = layer
                      /\ states[s].indexed
        filtered == SelectSeq(similarities[entityId], visible)
    IN SubSeq(filtered, 1, Min(config.k, Len(filtered)))

visibleSemanticPeers(states, entityId, layer) ==
    LET visible(s) == /\ s \in EntityIds
                      /\ entities[s].layer = layer
                      /\ states[s].indexed
    IN SelectSeq(similarities[entityId], visible)

RECURSIVE Reverse(_)
Reverse(q) == IF q = <<>> THEN <<>> ELSE Append(Reverse(Tail(q)), Head(q))

\* mutant: the comparator of the sort is reversed
layerEntities_Descending(layer) ==
    Reverse(SortedSeq({e \in EntityIds : entities[e].layer = layer}))

\* mutant: the layer filter is missing
layerEntities_AllLayers(layer) == SortedSeq(EntityIds)

\* runFallback step 2: all entities of the layer, sorted by id
layerEntities(layer) == SortedSeq({e \in EntityIds : entities[e].layer = layer})

\* mutant: the fallback has no lexicographic step
lexWalk_SemanticOnly(states, list, entityId, myClusterId) ==
    [kind |-> "self", clusterId |-> Null]

RECURSIVE lexWalk_PastSelf(_, _, _, _)
\* mutant: the walk does not stop at the leader's own id
lexWalk_PastSelf(states, list, entityId, myClusterId) ==
    IF list = <<>> THEN [kind |-> "self", clusterId |-> Null]
    ELSE LET ent == Head(list) IN
         IF ent # entityId /\ states[ent].clusterId # Null
                           /\ states[ent].clusterId # myClusterId
         THEN [kind |-> "join", clusterId |-> states[ent].clusterId]
         ELSE lexWalk_PastSelf(states, Tail(list), entityId, myClusterId)

RECURSIVE lexWalk(_, _, _, _)
\* the for loop of step 2: "self" when the leader meets its own id first,
\* a cluster id when a predecessor has another cluster, "end" otherwise
lexWalk(states, list, entityId, myClusterId) ==
    IF list = <<>> THEN [kind |-> "end", clusterId |-> Null]
    ELSE LET ent == Head(list) IN
         IF ent = entityId THEN [kind |-> "self", clusterId |-> Null]
         ELSE IF entities[ent].type = "cluster_leader"
              THEN lexWalk(states, Tail(list), entityId, myClusterId)
         ELSE IF states[ent].clusterId # Null /\ states[ent].clusterId # myClusterId
              THEN [kind |-> "join", clusterId |-> states[ent].clusterId]
         ELSE lexWalk(states, Tail(list), entityId, myClusterId)

\* the mutant of leaveAndJoin: the entity that leaves keeps its leader flag
leaveAndJoin_KeepFlag(states, cls, entityId, myClusterId, target) ==
    [entityStates |-> [states EXCEPT ![entityId].clusterId = target],
     clusters |-> joinClusterMembers(leaveMyCluster(cls, myClusterId, entityId),
                                     entityId, target)]

leaveAndJoin(states, cls, entityId, myClusterId, target) ==
    [entityStates |-> [states EXCEPT ![entityId].clusterId = target,
                                     ![entityId].isClusterLeader = FALSE],
     clusters |-> joinClusterMembers(leaveMyCluster(cls, myClusterId, entityId),
                                     entityId, target)]

runFallback(states, cls, entityId, myClusterId, layer) ==
    LET differs(p) == states[p].clusterId # Null /\ states[p].clusterId # myClusterId
        semantic == SelectSeq(visibleSemanticPeers(states, entityId, layer), differs)
        lex == lexWalk(states, layerEntities(layer), entityId, myClusterId)
        soloAtLayer == Len(layerEntities(layer)) = 1
    IN IF semantic # <<>>
       THEN leaveAndJoin(states, cls, entityId, myClusterId, states[Head(semantic)].clusterId)
       ELSE IF lex.kind = "self"
       THEN [entityStates |-> states, clusters |-> cls]
       ELSE IF lex.kind = "join"
       THEN leaveAndJoin(states, cls, entityId, myClusterId, lex.clusterId)
       ELSE IF soloAtLayer
       THEN [entityStates |-> [states EXCEPT ![entityId].clusterId = Null,
                                             ![entityId].isClusterLeader = FALSE],
             clusters |-> [c \in (DOMAIN cls) \ {myClusterId} |-> cls[c]]]
       ELSE [entityStates |-> states, clusters |-> cls]

----------------------------------------------------------------------------
(* ClusterSimulation.run and ClusterSimulation.processEvent *)

RECURSIVE scheduleArrivals(_, _, _)
\* the for loop of run(): entity i of the shuffled list arrives at
\* floor(i / length * arrivalSpreadMs)
scheduleArrivals(q, shuffled, i) ==
    IF i >= Len(shuffled) THEN q
    \* shuffled[i].id throws on undefined
    ELSE IF shuffled[i + 1] = Null THEN q
    ELSE scheduleArrivals(
            scheduleEvent(q, Event((i * config.arrivalSpreadMs) \div Len(shuffled),
                                   "entity_arrives", shuffled[i + 1], Null)),
            shuffled, i + 1)

\* what shuffle(this.entities, this.random) can return: with the seed
\* unknown, every order of the entity list
shuffles ==
    IF hasSeed THEN {shuffle(SortedSeq(EntityIds), observed.seed)}
    ELSE Perms(EntityIds)

\* run(), up to the event loop
RunStart ==
    /\ pc = "init"
    /\ \E shuffled \in shuffles :
          /\ eventQueue' = scheduleArrivals(eventQueue, shuffled, 0)
          /\ pc' = IF \E i \in 1 .. Len(shuffled) : shuffled[i] = Null
                   THEN "crashed" ELSE "running"
    /\ observed' = IF hasSeed
                   THEN [observed EXCEPT !.seed = advance(@, Cardinality(EntityIds) - 1)]
                   ELSE observed
    /\ UNCHANGED <<config, entities, similarities, entityStates, clusters,
                   currentTime, nextClusterId, waitEnd>>
    /\ UNCHANGED <<logs, pending, worker>>

\* the loop of run() shifts the first event and hands it to processEvent
NextEvent(type) ==
    /\ pc = "running"
    /\ eventQueue # <<>>
    /\ Head(eventQueue).type = type
    /\ currentTime' = Head(eventQueue).time

ProcessEntityArrives ==
    /\ NextEvent("entity_arrives")
    /\ LET ev == Head(eventQueue)
           q1 == scheduleEvent(Tail(eventQueue),
                    Event(ev.time + config.indexDelayMs, "entity_indexed", ev.entityId, Null))
           q2 == scheduleEvent(q1, Event(ev.time, "entity_searches", ev.entityId, Null))
       IN /\ entityStates' = [entityStates EXCEPT ![ev.entityId].arrived = TRUE]
          /\ eventQueue' = q2
          /\ observed' = observedAfter(ev, 0)
    /\ UNCHANGED <<pc, config, entities, similarities, clusters, nextClusterId, waitEnd>>
    /\ UNCHANGED <<logs, pending, worker>>

ProcessEntityIndexed ==
    /\ NextEvent("entity_indexed")
    /\ entityStates' = [entityStates EXCEPT ![Head(eventQueue).entityId].indexed = TRUE]
    /\ eventQueue' = Tail(eventQueue)
    /\ observed' = observedAfter(Head(eventQueue), 0)
    /\ UNCHANGED <<pc, config, entities, similarities, clusters, nextClusterId, waitEnd>>
    /\ UNCHANGED <<logs, pending, worker>>

\* the mutant of CreateAndWait: another recheck instead of an own cluster
CreateAndWait_Recheck(ev, r) ==
    /\ eventQueue' = scheduleEvent(Tail(eventQueue),
            Event(ev.time + config.recheckDelayMs, "entity_rechecks", ev.entityId, Null))
    /\ entityStates' = [entityStates EXCEPT ![ev.entityId].processing = TRUE]
    /\ observed' = observedAfter(ev, 0)
    /\ UNCHANGED <<clusters, nextClusterId>>

\* "create cluster and wait for followers", shared by the search and the recheck
CreateAndWait(ev, r) ==
    /\ clusters' = createCluster(clusters, ev.entityId)
    /\ nextClusterId' = nextClusterId + 1
    /\ entityStates' = [entityStates EXCEPT
            ![ev.entityId].processing = TRUE,
            ![ev.entityId].clusterId = nextClusterId,
            ![ev.entityId].isClusterLeader = TRUE,
            ![ev.entityId].waitingForFollowers = TRUE,
            ![ev.entityId].followerWaitStartTime = {ev.time}]
    /\ eventQueue' = scheduleEvent(Tail(eventQueue),
            Event(ev.time + getJitteryWait(r), "follower_wait_ends", ev.entityId, nextClusterId))
    /\ observed' = observedAfter(ev, 1)

\* the mutant of JoinFound: the entity that joined is left processing
JoinFound_StillProcessing(ev, found) ==
    /\ clusters' = joinClusterMembers(clusters, ev.entityId, found.clusterId)
    /\ entityStates' = [entityStates EXCEPT
            ![ev.entityId].clusterId = found.clusterId,
            ![ev.entityId].processing = TRUE]
    /\ eventQueue' = Tail(eventQueue)
    /\ observed' = observedAfter(ev, 0)
    /\ UNCHANGED nextClusterId

JoinFound(ev, found) ==
    /\ clusters' = joinClusterMembers(clusters, ev.entityId, found.clusterId)
    /\ entityStates' = [entityStates EXCEPT
            ![ev.entityId].clusterId = found.clusterId,
            ![ev.entityId].processing = FALSE]
    /\ eventQueue' = Tail(eventQueue)
    /\ observed' = observedAfter(ev, 0)
    /\ UNCHANGED nextClusterId

ProcessEntitySearches ==
    /\ NextEvent("entity_searches")
    /\ LET ev == Head(eventQueue)
           peers == getVisiblePeers(ev.entityId, entities[ev.entityId].layer)
           clusteredPeer == findClusteredPeer(peers)
       IN IF Len(peers) = 0
          THEN \E r \in random : CreateAndWait(ev, r)
          ELSE IF clusteredPeer # <<>>
          THEN JoinFound(ev, clusteredPeer[1])
          ELSE /\ eventQueue' = scheduleEvent(Tail(eventQueue),
                      Event(ev.time + config.recheckDelayMs, "entity_rechecks", ev.entityId, Null))
               /\ entityStates' = [entityStates EXCEPT ![ev.entityId].processing = TRUE]
               /\ observed' = observedAfter(ev, 0)
               /\ UNCHANGED <<clusters, nextClusterId>>
    /\ UNCHANGED <<pc, config, entities, similarities, waitEnd>>
    /\ UNCHANGED <<logs, pending, worker>>

ProcessEntityRechecks ==
    /\ NextEvent("entity_rechecks")
    /\ LET ev == Head(eventQueue)
           peers == getVisiblePeers(ev.entityId, entities[ev.entityId].layer)
           clusteredPeer == findClusteredPeer(peers)
       IN IF clusteredPeer # <<>>
          THEN JoinFound(ev, clusteredPeer[1])
          ELSE \E r \in random : CreateAndWait(ev, r)
    /\ UNCHANGED <<pc, config, entities, similarities, waitEnd>>
    /\ UNCHANGED <<logs, pending, worker>>

\* what the fallback of entityId could see when its timer fires (recorded only)
WaitEndRecord(ev, runs) ==
    LET me == ev.entityId
        layer == entities[me].layer
        others == {c \in DOMAIN clusters : /\ c # ev.clusterId
                                            /\ clusters[c].members # {}
                                            /\ entities[clusters[c].leaderId].layer = layer}
        elsewhere(p) == /\ p # me
                        /\ entities[p].layer = layer
                        /\ entityStates[p].clusterId # Null
                        /\ entityStates[p].clusterId # ev.clusterId
        similar == {similarities[me][i] : i \in 1 .. Len(similarities[me])}
    IN [fired |-> TRUE, myClusterId |-> ev.clusterId, ranFallback |-> runs,
        otherCluster |-> others # {},
        joinable |-> \E p \in EntityIds :
                        /\ elsewhere(p)
                        /\ \/ p \in similar /\ entityStates[p].indexed
                           \/ p < me /\ entities[p].type # "cluster_leader",
        waitingPeers |-> {p \in EntityIds : /\ p # me
                                            /\ entities[p].layer = layer
                                            /\ entityStates[p].isClusterLeader
                                            /\ entityStates[p].waitingForFollowers}]

\* the mutant of fallbackRuns: the member count is not looked at
fallbackRuns_Always(cls, clusterId) == clusterId \in DOMAIN cls

\* follower_wait_ends: if (cluster) and not memberCount > 1
fallbackRuns(cls, clusterId) ==
    /\ clusterId \in DOMAIN cls
    /\ ~(Cardinality(cls[clusterId].members) > 1)

ProcessFollowerWaitEnds ==
    /\ NextEvent("follower_wait_ends")
    /\ LET ev == Head(eventQueue)
           states == [entityStates EXCEPT ![ev.entityId].waitingForFollowers = FALSE,
                                          ![ev.entityId].processing = FALSE]
           runs == fallbackRuns(clusters, ev.clusterId)
           after == runFallback(states, clusters, ev.entityId, ev.clusterId,
                                entities[ev.entityId].layer)
       IN /\ entityStates' = IF runs THEN after.entityStates ELSE states
          /\ clusters' = IF runs THEN after.clusters ELSE clusters
          /\ waitEnd' = [waitEnd EXCEPT ![ev.entityId] = WaitEndRecord(ev, runs)]
          /\ observed' = observedAfter(ev, 0)
    /\ eventQueue' = Tail(eventQueue)
    /\ UNCHANGED <<pc, config, entities, similarities, nextClusterId>>
    /\ UNCHANGED <<logs, pending, worker>>

\* the event loop of run() ends when the queue is empty
RunEnds ==
    /\ pc = "running"
    /\ eventQueue = <<>>
    /\ pc' = "done"
    /\ UNCHANGED <<config, entities, similarities, entityStates, clusters,
                   eventQueue, currentTime, nextClusterId, waitEnd>>
    /\ UNCHANGED obsVars

Next ==
    \/ RunStart
    \/ ProcessEntityArrives
    \/ ProcessEntityIndexed
    \/ ProcessEntitySearches
    \/ ProcessEntityRechecks
    \/ ProcessFollowerWaitEnds
    \/ RunEnds

Spec == SimInit /\ [][Next]_vars

\* the simulator run with --seed=N, and then run once more: a second
\* ClusterSimulation over the same data and the same configuration
SeededInit ==
    /\ pc = "init"
    /\ config \in [k : KValues, arrivalSpreadMs : ArrivalSpreads,
                   indexDelayMs : IndexDelays, recheckDelayMs : RecheckDelays,
                   followerWaitMinMs : FollowerWaitMins,
                   followerWaitMaxMs : FollowerWaitMaxs,
                   seed : Seeds]
    /\ entities \in [EntityIds -> [type : EntityTypes, layer : Layers]]
    /\ similarities \in [EntityIds -> DistinctSeqs(EntityIds)]
    /\ SimulationData(entities, similarities)
    /\ entityStates = [e \in EntityIds |-> InitialEntityState]
    /\ clusters = EmptyMap
    /\ eventQueue = <<>>
    /\ currentTime = 0
    /\ nextClusterId = 1
    /\ waitEnd = [e \in EntityIds |-> NoWaitEnd]
    /\ logs = NoLogs /\ pending = {} /\ worker = NoWorkers
    /\ observed = [seed |-> config.seed, trace |-> <<>>, first |-> <<>>]

\* what a run leaves: the events it processed and the state it ended in
runOutcome ==
    [pc |-> pc, trace |-> observed.trace, entityStates |-> entityStates,
     clusters |-> clusters, eventQueue |-> eventQueue]

\* the constructor of ClusterSimulation builds the second run
RunAgain ==
    /\ pc \in {"done", "crashed"}
    /\ observed.first = <<>>
    /\ pc' = "init"
    /\ entityStates' = [e \in EntityIds |-> InitialEntityState]
    /\ clusters' = EmptyMap
    /\ eventQueue' = <<>>
    /\ currentTime' = 0
    /\ nextClusterId' = 1
    /\ waitEnd' = [e \in EntityIds |-> NoWaitEnd]
    /\ observed' = [seed |-> config.seed, trace |-> <<>>, first |-> <<runOutcome>>]
    /\ UNCHANGED <<config, entities, similarities, logs, pending, worker>>

SeededNext == Next \/ RunAgain

SpecSeeded == SeededInit /\ [][SeededNext]_vars

----------------------------------------------------------------------------
(* The validator: its own copy of the simulation, with a fixed configuration *)

V_k == 5
V_arrivalSpreadMs == 100
V_indexDelayMs == 1000
V_recheckDelayMs == 10000
V_followerWaitMinMs == 30000
V_followerWaitMaxMs == 90000

ValidatorInit ==
    /\ pc = "v_init"
    /\ config = [k |-> V_k, arrivalSpreadMs |-> V_arrivalSpreadMs,
                 indexDelayMs |-> V_indexDelayMs, recheckDelayMs |-> V_recheckDelayMs,
                 followerWaitMinMs |-> V_followerWaitMinMs,
                 followerWaitMaxMs |-> V_followerWaitMaxMs]
    /\ entities \in [EntityIds -> [type : EntityTypes, layer : Layers]]
    /\ similarities \in [EntityIds -> DistinctSeqs(EntityIds)]
    /\ SimulationData(entities, similarities)
    /\ entityStates = [e \in EntityIds |-> [clusterId |-> Null, indexed |-> FALSE]]
    /\ clusters = EmptyMap
    /\ eventQueue = <<>>
    /\ currentTime = 0
    /\ nextClusterId = 1
    /\ waitEnd = [e \in EntityIds |-> NoWaitEnd]
    /\ logs = NoLogs /\ pending = {} /\ worker = NoWorkers /\ observed = Null

RECURSIVE V_scheduleArrivals(_, _, _)
V_scheduleArrivals(q, shuffled, i) ==
    IF i >= Len(shuffled) THEN q
    ELSE V_scheduleArrivals(
            scheduleEvent(q, Event((i * V_arrivalSpreadMs) \div Len(shuffled),
                                   "arrives", shuffled[i + 1], Null)),
            shuffled, i + 1)

V_getVisiblePeers(entityId, layer) ==
    LET visible(s) == /\ s \in EntityIds
                      /\ entities[s].layer = layer
                      /\ entityStates[s].indexed
        filtered == SelectSeq(similarities[entityId], visible)
    IN SubSeq(filtered, 1, Min(V_k, Len(filtered)))

V_findClusteredPeer(peers) ==
    LET clustered(p) == entityStates[p].clusterId # Null
        found == SelectSeq(peers, clustered)
    IN IF found = <<>> THEN <<>>
       ELSE <<[peerId |-> Head(found), clusterId |-> entityStates[Head(found)].clusterId]>>

V_createCluster(cls, leaderId) ==
    [c \in (DOMAIN cls) \cup {nextClusterId} |->
        IF c = nextClusterId THEN [id |-> nextClusterId, members |-> {leaderId}]
        ELSE cls[c]]

V_joinCluster(cls, entityId, clusterId) ==
    IF clusterId \in DOMAIN cls
    THEN [cls EXCEPT ![clusterId].members = @ \cup {entityId}]
    ELSE cls

\* mutant: leaveCluster forgets to delete the member
V_leaveCluster_Stays(cls, entityId, clusterId) == cls

V_leaveCluster(cls, entityId, clusterId) ==
    IF clusterId \in DOMAIN cls
    THEN LET left == cls[clusterId].members \ {entityId}
         IN IF left = {}
            THEN [c \in (DOMAIN cls) \ {clusterId} |-> cls[c]]
            ELSE [cls EXCEPT ![clusterId].members = left]
    ELSE cls

V_getJitteryWait(r) ==
    V_followerWaitMinMs + ((r.num * (V_followerWaitMaxMs - V_followerWaitMinMs)) \div r.den)

\* the script up to its event loop: shuffle and schedule the arrivals
ValidatorStart ==
    /\ pc = "v_init"
    /\ \E shuffled \in shuffles :
          eventQueue' = V_scheduleArrivals(eventQueue, shuffled, 0)
    /\ pc' = "v_running"
    /\ observed' = IF hasSeed
                   THEN [observed EXCEPT !.seed = advance(@, Cardinality(EntityIds) - 1)]
                   ELSE observed
    /\ UNCHANGED <<config, entities, similarities, entityStates, clusters,
                   currentTime, nextClusterId, waitEnd>>
    /\ UNCHANGED <<logs, pending, worker>>

V_Created(ev, r) ==
    /\ clusters' = V_createCluster(clusters, ev.entityId)
    /\ nextClusterId' = nextClusterId + 1
    /\ entityStates' = [entityStates EXCEPT ![ev.entityId].clusterId = nextClusterId]
    /\ eventQueue' = scheduleEvent(Tail(eventQueue),
            Event(ev.time + V_getJitteryWait(r), "follower_wait_ends", ev.entityId,
                  nextClusterId))

V_Joined(ev, found) ==
    /\ clusters' = V_joinCluster(clusters, ev.entityId, found.clusterId)
    /\ entityStates' = [entityStates EXCEPT ![ev.entityId].clusterId = found.clusterId]
    /\ eventQueue' = Tail(eventQueue)
    /\ UNCHANGED nextClusterId

\* case 'follower_wait_ends': a solo cluster runs the semantic fallback only
V_FollowerWaitEnds(ev) ==
    LET me == ev.entityId
        myClusterId == ev.clusterId
        solo == /\ myClusterId \in DOMAIN clusters
                /\ Cardinality(clusters[myClusterId].members) = 1
        visible(s) == /\ s \in EntityIds
                      /\ entities[s].layer = entities[me].layer
                      /\ entityStates[s].indexed
        differs(p) == /\ entityStates[p].clusterId # Null
                      /\ entityStates[p].clusterId # myClusterId
        found == SelectSeq(SelectSeq(similarities[me], visible), differs)
        target == entityStates[Head(found)].clusterId
    IN /\ IF solo /\ found # <<>>
          THEN /\ clusters' = V_joinCluster(V_leaveCluster(clusters, me, myClusterId),
                                            me, target)
               /\ entityStates' = [entityStates EXCEPT ![me].clusterId = target]
          ELSE UNCHANGED <<clusters, entityStates>>
       /\ eventQueue' = Tail(eventQueue)
       /\ UNCHANGED nextClusterId

\* one turn of the while loop: shift the first event and switch on its type
ValidatorStep ==
    /\ pc = "v_running"
    /\ eventQueue # <<>>
    /\ currentTime' = Head(eventQueue).time
    /\ LET ev == Head(eventQueue)
           peers == V_getVisiblePeers(ev.entityId, entities[ev.entityId].layer)
           clusteredPeer == V_findClusteredPeer(peers)
           \* getJitteryWait is called where a cluster is created
           creates == \/ ev.type = "searches" /\ Len(peers) = 0
                      \/ ev.type = "rechecks" /\ clusteredPeer = <<>>
       IN /\ observed' = IF hasSeed /\ creates
                         THEN [observed EXCEPT !.seed = advance(@, 1)]
                         ELSE observed
          /\ CASE ev.type = "arrives" ->
                    /\ eventQueue' = scheduleEvent(
                           scheduleEvent(Tail(eventQueue),
                               Event(ev.time + V_indexDelayMs, "indexed", ev.entityId, Null)),
                           Event(ev.time, "searches", ev.entityId, Null))
                    /\ UNCHANGED <<entityStates, clusters, nextClusterId>>
               [] ev.type = "indexed" ->
                    /\ entityStates' = [entityStates EXCEPT ![ev.entityId].indexed = TRUE]
                    /\ eventQueue' = Tail(eventQueue)
                    /\ UNCHANGED <<clusters, nextClusterId>>
               [] ev.type = "searches" ->
                    IF Len(peers) = 0
                    THEN \E r \in random : V_Created(ev, r)
                    ELSE IF clusteredPeer # <<>>
                    THEN V_Joined(ev, clusteredPeer[1])
                    ELSE /\ eventQueue' = scheduleEvent(Tail(eventQueue),
                                Event(ev.time + V_recheckDelayMs, "rechecks", ev.entityId, Null))
                         /\ UNCHANGED <<entityStates, clusters, nextClusterId>>
               [] ev.type = "rechecks" ->
                    IF clusteredPeer # <<>>
                    THEN V_Joined(ev, clusteredPeer[1])
                    ELSE \E r \in random : V_Created(ev, r)
               [] ev.type = "follower_wait_ends" -> V_FollowerWaitEnds(ev)
    /\ UNCHANGED <<pc, config, entities, similarities, waitEnd>>
    /\ UNCHANGED <<logs, pending, worker>>

\* the loop ends with an empty queue and the validation section runs
ValidatorDrained ==
    /\ pc = "v_running"
    /\ eventQueue = <<>>
    /\ pc' = "v_done"
    /\ UNCHANGED <<config, entities, similarities, entityStates, clusters,
                   eventQueue, currentTime, nextClusterId, waitEnd>>
    /\ UNCHANGED obsVars

ValidatorNext == ValidatorStart \/ ValidatorStep \/ ValidatorDrained

SpecValidator == ValidatorInit /\ [][ValidatorNext]_vars

----------------------------------------------------------------------------
(* The log store: logs written by the workers through additive updates *)

MaxLogs == 3

LogIds == 1 .. MaxLogs
RootLog == 1                    \* the peer of the job collection's first_log
UNKNOWN == -1

Invoke == [type |-> "invoke", outputs |-> <<1>>]
EmptyScatter == [type |-> "scatter", outputs |-> <<>>]
ScatterTwo == [type |-> "scatter", outputs |-> <<1, 2>>]
Delegated == [type |-> "scatter", delegated |-> TRUE]

\* the handoff lists a worker records
HandoffLists == {<<>>, <<Invoke>>, <<EmptyScatter>>, <<ScatterTwo>>, <<Delegated>>}

\* the messages a worker may pass to updateLogStatus
MessageLists == {<<>>, <<[metadata |-> [numCopies |-> 1]]>>}

HasField(r, f) == f \in DOMAIN r

RECURSIVE SumLengths(_)
\* how many downstream invocations a handoff list stands for; a delegated
\* scatter leaves the number to the delegate
SumLengths(hs) ==
    IF hs = <<>> THEN 0
    ELSE LET h == Head(hs)
             n == IF HasField(h, "outputs") THEN Len(h.outputs)
                  ELSE IF HasField(h, "invocations") THEN Len(h.invocations)
                  ELSE 0
         IN n + SumLengths(Tail(hs))

IsDelegated(hs) == \E i \in 1 .. Len(hs) : HasField(hs[i], "delegated") /\ hs[i].delegated

FiredCounts(hs) ==
    IF IsDelegated(hs) THEN 0 .. (MaxLogs - 1) ELSE {SumLengths(hs)}

NewLog == [status |-> "running", handoffs |-> <<>>, messages |-> <<>>, sentTo |-> <<>>]

NewWorker ==
    [pc |-> "running", fired |-> 0, created |-> 0, delegate |-> "none",
     parentLogIds |-> {}]

ObserverInit ==
    /\ pc = "observing"
    /\ config = Null /\ entities = Null /\ similarities = Null
    /\ entityStates = Null /\ clusters = EmptyMap /\ eventQueue = <<>>
    /\ currentTime = 0 /\ nextClusterId = 1 /\ waitEnd = Null
    /\ logs = (RootLog :> NewLog)
    /\ pending = {}
    /\ worker = (RootLog :> NewWorker)
    /\ observed = Null

\* writeKladosLog: the log entity is created, and one additive batch adds a
\* sent_to to every parent log (fire and forget)
WriteKladosLog ==
    /\ pc = "observing"
    /\ \E parents \in SUBSET (DOMAIN logs) :
          LET new == Cardinality(DOMAIN logs) + 1 IN
          /\ parents # {} /\ Cardinality(parents) <= 2
          /\ new \in LogIds
          /\ \A p \in parents : worker[p].created < worker[p].fired
          /\ logs' = logs @@ (new :> NewLog)
          /\ worker' = [l \in DOMAIN logs |->
                           IF l \in parents
                           THEN [worker[l] EXCEPT !.created = @ + 1]
                           ELSE worker[l]]
                       @@ (new :> [NewWorker EXCEPT !.parentLogIds = parents])
          /\ pending' = pending \cup
                {[kind |-> "sent_to", log |-> p, peer |-> new] : p \in parents}
    /\ UNCHANGED <<observed, simVars>>

\* interpretThen fires the handoffs, then updateLogWithHandoffs queues the
\* deep merge of log_data.entry.handoffs
UpdateLogWithHandoffs ==
    /\ pc = "observing"
    /\ \E l \in DOMAIN logs, hs \in HandoffLists :
          /\ worker[l].pc = "running"
          /\ \E n \in FiredCounts(hs) :
                worker' = [worker EXCEPT ![l].pc = "handed", ![l].fired = n,
                                         ![l].delegate = IF IsDelegated(hs) THEN "open"
                                                         ELSE "none"]
          /\ pending' = pending \cup {[kind |-> "handoffs", log |-> l, handoffs |-> hs]}
    /\ UNCHANGED <<logs, observed, simVars>>

\* a numCopies message tells how many copies the worker sent on
numCopiesOf(msgs) == {msgs[i].metadata.numCopies : i \in 1 .. Len(msgs)}

\* updateLogStatus queues status (and messages): done after the handoffs, or
\* error, with or without handoffs recorded before
UpdateLogStatus ==
    /\ pc = "observing"
    /\ \E l \in DOMAIN logs, st \in {"done", "error"}, msgs \in MessageLists :
          /\ \/ /\ worker[l].pc = "handed" /\ st = "done"
                /\ numCopiesOf(msgs) \subseteq {worker[l].fired}
             \/ worker[l].pc \in {"running", "handed"} /\ st = "error" /\ msgs = <<>>
          /\ worker' = [worker EXCEPT ![l].pc = "finished"]
          /\ pending' = pending \cup
                {[kind |-> "status", log |-> l, status |-> st, messages |-> msgs]}
    /\ UNCHANGED <<logs, observed, simVars>>

\* the mutant of AddSentTo: the relationships are written, not added to
AddSentTo_Overwrite(log, peer) == [log EXCEPT !.sentTo = <<peer>>]

\* relationships_add upserts: a relationship that is there is not added again
AddSentTo(log, peer) ==
    IF \E i \in 1 .. Len(log.sentTo) : log.sentTo[i] = peer
    THEN log
    ELSE [log EXCEPT !.sentTo = Append(@, peer)]

\* the mutant of mergeUpdate: the handoffs are written by read-modify-write
\* of the whole entity as read when the log was created
mergeUpdate_Put(log, u) ==
    CASE u.kind = "sent_to" -> AddSentTo(log, u.peer)
      [] u.kind = "handoffs" -> [log EXCEPT !.handoffs = u.handoffs, !.status = "running"]
      [] u.kind = "status" ->
            [log EXCEPT !.status = u.status,
                        !.messages = IF u.messages = <<>> THEN @ ELSE u.messages]

\* the additive service merges one update into the entity: relationships are
\* upserted, properties deep-merged (only the keys the update names change)
mergeUpdate(log, u) ==
    CASE u.kind = "sent_to" -> AddSentTo(log, u.peer)
      [] u.kind = "handoffs" -> [log EXCEPT !.handoffs = u.handoffs]
      [] u.kind = "status" ->
            [log EXCEPT !.status = u.status,
                        !.messages = IF u.messages = <<>> THEN @ ELSE u.messages]

\* the server applies one queued additive update
ApplyAdditive ==
    /\ pc = "observing"
    /\ \E u \in pending :
          /\ pending' = pending \ {u}
          /\ logs' = [logs EXCEPT ![u.log] = mergeUpdate(@, u)]
    /\ UNCHANGED <<worker, observed, simVars>>

\* the delegate of a delegated scatter, once it has invoked its children and
\* the delegated handoff is on the log, writes the outputs back onto it
ResolveDelegated ==
    /\ pc = "observing"
    /\ \E l \in DOMAIN logs :
          /\ worker[l].delegate = "open"
          /\ worker[l].created = worker[l].fired
          /\ logs[l].handoffs = <<Delegated>>
          /\ worker' = [worker EXCEPT ![l].delegate = "resolved"]
          /\ pending' = pending \cup
                {[kind |-> "handoffs", log |-> l,
                  handoffs |-> <<[type |-> "scatter",
                                  outputs |-> [i \in 1 .. worker[l].fired |-> i]]>>]}
    /\ UNCHANGED <<logs, observed, simVars>>

ObserverNext ==
    \/ WriteKladosLog
    \/ UpdateLogWithHandoffs
    \/ UpdateLogStatus
    \/ ResolveDelegated
    \/ ApplyAdditive

\* the model's bound on the number of logs keeps an invoked child from starting
Starved ==
    /\ Cardinality(DOMAIN logs) = MaxLogs
    /\ \E l \in DOMAIN logs : worker[l].created < worker[l].fired

\* workers are scheduled fairly and queued additive updates are delivered fairly
ObserverFairness ==
    /\ WF_vars(WriteKladosLog)
    /\ WF_vars(UpdateLogWithHandoffs)
    /\ WF_vars(UpdateLogStatus)
    /\ WF_vars(ResolveDelegated)
    /\ WF_vars(ApplyAdditive)

SpecObserverFair == ObserverInit /\ [][ObserverNext]_vars /\ ObserverFairness

SpecObserver == ObserverInit /\ [][ObserverNext]_vars

----------------------------------------------------------------------------
(* The workflow-tree observer (diagnose-tree.ts) *)

RECURSIVE firstNumCopies(_)
\* the numCopies of the first message that has one, as a sequence of at most one
firstNumCopies(messages) ==
    IF messages = <<>> THEN <<>>
    ELSE LET msg == Head(messages) IN
         IF HasField(msg, "metadata") /\ HasField(msg.metadata, "numCopies")
         THEN <<msg.metadata.numCopies>>
         ELSE firstNumCopies(Tail(messages))

RECURSIVE countHandoffs(_, _)
\* the for loop over the handoffs, total so far
countHandoffs(handoffs, total) ==
    IF handoffs = <<>> THEN total
    ELSE LET handoff == Head(handoffs) IN
         IF handoff.type = "invoke" \/ handoff.type = "pass"
         THEN countHandoffs(Tail(handoffs), total + 1)
         ELSE IF handoff.type = "scatter"
         THEN IF HasField(handoff, "outputs") /\ Len(handoff.outputs) > 0
              THEN countHandoffs(Tail(handoffs), total + Len(handoff.outputs))
              ELSE IF HasField(handoff, "invocations") /\ Len(handoff.invocations) > 0
              THEN countHandoffs(Tail(handoffs), total + Len(handoff.invocations))
              ELSE IF HasField(handoff, "delegated") /\ handoff.delegated
              THEN UNKNOWN
              ELSE countHandoffs(Tail(handoffs), total + 1)
         ELSE IF handoff.type = "gather"
         THEN countHandoffs(Tail(handoffs), total + 1)
         ELSE countHandoffs(Tail(handoffs), total)

getExpectedChildrenCount(log) ==
    IF firstNumCopies(log.messages) # <<>> THEN firstNumCopies(log.messages)[1]
    ELSE IF Len(log.handoffs) = 0 THEN 0
    ELSE countHandoffs(log.handoffs, 0)

isTerminal(log) == log.status = "done" \/ log.status = "error"

NoKids == [n \in {} |-> <<>>]

RECURSIVE buildTreeNode(_, _), buildChildren(_, _, _)
\* buildTreeNode with the shared visited set: acc is the set of visited logs
\* and the children list of every node built so far
buildTreeNode(logId, acc) ==
    LET entered == [visited |-> acc.visited \cup {logId}, kids |-> acc.kids]
        r == buildChildren(logs[logId].sentTo, entered, <<>>)
    IN [visited |-> r.acc.visited, kids |-> r.acc.kids @@ (logId :> r.children)]

\* the "Recurse" loop: a peer that is already visited yields null and is skipped
buildChildren(sentTo, acc, children) ==
    IF sentTo = <<>> THEN [acc |-> acc, children |-> children]
    ELSE IF Head(sentTo) \in acc.visited
         THEN buildChildren(Tail(sentTo), acc, children)
         ELSE buildChildren(Tail(sentTo), buildTreeNode(Head(sentTo), acc),
                            Append(children, Head(sentTo)))

\* main: the tree built from the root log
Tree == buildTreeNode(RootLog, [visited |-> {}, kids |-> NoKids])

\* collectLeaves: the nodes of the tree that have no child node
collectLeaves(tree) == {n \in tree.visited : tree.kids[n] = <<>>}

RECURSIVE checkAllChildrenDiscovered(_, _)
checkAllChildrenDiscovered(tree, node) ==
    IF ~isTerminal(logs[node]) THEN TRUE
    ELSE IF getExpectedChildrenCount(logs[node]) < 0 THEN FALSE
    ELSE IF Len(tree.kids[node]) < getExpectedChildrenCount(logs[node]) THEN FALSE
    ELSE \A i \in 1 .. Len(tree.kids[node]) :
            checkAllChildrenDiscovered(tree, tree.kids[node][i])

\* main: isComplete = allLeavesTerminal && childrenCheck.ok
isComplete ==
    LET tree == Tree
        allLeavesTerminal == \A l \in collectLeaves(tree) : isTerminal(logs[l])
    IN allLeavesTerminal /\ checkAllChildrenDiscovered(tree, RootLog)

----------------------------------------------------------------------------
(* getExpectedChildrenCount applied to one log of any shape *)

MaxHandoffs == 2
MaxMessages == 2

NoField == [f \in {} |-> Null]

OutputLists == {<<>>, <<1, 2>>}
InvocationLists == {<<>>, <<1, 2, 3>>}

\* a scatter handoff: outputs, invocations and delegated are each optional
ScatterShapes ==
    {[type |-> "scatter"] @@ o @@ i @@ d :
        o \in {NoField} \cup {[outputs |-> x] : x \in OutputLists},
        i \in {NoField} \cup {[invocations |-> x] : x \in InvocationLists},
        d \in {NoField} \cup {[delegated |-> x] : x \in BOOLEAN}}

HandoffShapes ==
    {[type |-> t] : t \in {"invoke", "pass", "gather", "recurse"}} \cup ScatterShapes

\* a message: metadata and its numCopies are each optional
MessageShapes ==
    {NoField, [metadata |-> NoField]}
        \cup {[metadata |-> [numCopies |-> n]] : n \in {0, 2}}

SeqsUpTo(S, n) == UNION {[1 .. k -> S] : k \in 0 .. n}

ExpectedInit ==
    /\ pc = "expected_init"
    /\ config = Null /\ entities = Null /\ similarities = Null
    /\ entityStates = Null /\ clusters = EmptyMap /\ eventQueue = <<>>
    /\ currentTime = 0 /\ nextClusterId = 1 /\ waitEnd = Null
    /\ \E hs \in SeqsUpTo(HandoffShapes, MaxHandoffs),
          ms \in SeqsUpTo(MessageShapes, MaxMessages) :
          logs = (RootLog :> [NewLog EXCEPT !.status = "done",
                                            !.handoffs = hs, !.messages = ms])
    /\ pending = {}
    /\ worker = NoWorkers
    /\ observed = Null

\* buildTreeNode: const expected = getExpectedChildrenCount(log)
ComputeExpected ==
    /\ pc = "expected_init"
    /\ pc' = "expected_done"
    /\ observed' = [expectedChildren |-> getExpectedChildrenCount(logs[RootLog])]
    /\ UNCHANGED <<config, entities, similarities, entityStates, clusters,
                   eventQueue, currentTime, nextClusterId, waitEnd,
                   logs, pending, worker>>

ExpectedNext == ComputeExpected

SpecExpected == ExpectedInit /\ [][ExpectedNext]_vars

----------------------------------------------------------------------------
(* The describe worker's LLM call: callGeminiWithJsonRetry *)

JSON_PARSE_MAX_RETRIES == 3
SliceLen == 2000

\* what the model may answer: valid JSON with a description, text that
\* JSON.parse rejects, or valid JSON whose description is not a string
ResponseKinds == {"valid", "bad_json", "no_description"}
ContentLengths == {100, 2000, 2001}
GeminiResponses == [kind : ResponseKinds, length : ContentLengths]

\* lastResponse.content.slice(0, 2000) and the '...[truncated]' mark
\* the mutant of sliceContent: the whole response goes into the prompt
sliceContent_Whole(response) ==
    [kind |-> response.kind, length |-> response.length, truncated |-> FALSE]

sliceContent(response) ==
    [kind |-> response.kind,
     length |-> Min(response.length, SliceLen),
     truncated |-> response.length > SliceLen]

\* effectiveUserPrompt: userPrompt, plus the RETRY section when retrying
effectiveUserPrompt(lastResponse, lastError) ==
    IF lastResponse # <<>> /\ lastError # <<>>
    THEN [user |-> "userPrompt",
          retry |-> <<[error |-> lastError[1],
                       response |-> sliceContent(lastResponse[1])]>>]
    ELSE [user |-> "userPrompt", retry |-> <<>>]

\* the try block: JSON.parse and the check of the description field; the
\* error message when it throws, <<>> when it does not
parseError(response) ==
    IF response.kind = "bad_json" THEN <<"SyntaxError">>
    ELSE IF response.kind = "no_description"
         THEN <<"Missing or invalid description field">>
         ELSE <<>>

\* the mutant of attemptLoop: a response without a description is returned
\* as a result and not retried
RECURSIVE attemptLoop_NoSchemaCheck(_, _, _, _, _)
attemptLoop_NoSchemaCheck(llm, attempt, lastResponse, lastError, calls) ==
    IF ~(attempt < JSON_PARSE_MAX_RETRIES)
    THEN [ok |-> FALSE, calls |-> calls, error |-> lastError, result |-> <<>>]
    ELSE LET prompt == [system |-> "systemPrompt",
                        user |-> effectiveUserPrompt(lastResponse, lastError)]
             response == llm[attempt + 1]
         IN IF response.kind # "bad_json"
            THEN [ok |-> TRUE, calls |-> Append(calls, prompt), error |-> <<>>,
                  result |-> <<response>>]
            ELSE attemptLoop_NoSchemaCheck(llm, attempt + 1, <<response>>,
                                           parseError(response), Append(calls, prompt))

RECURSIVE attemptLoop(_, _, _, _, _)
\* the for loop of callGeminiWithJsonRetry from attempt on; llm[k] is what
\* callGemini returns on the k-th call; calls are the prompts sent so far
attemptLoop(llm, attempt, lastResponse, lastError, calls) ==
    IF ~(attempt < JSON_PARSE_MAX_RETRIES)
    THEN [ok |-> FALSE, calls |-> calls, error |-> lastError, result |-> <<>>]
    ELSE LET prompt == [system |-> "systemPrompt",
                        user |-> effectiveUserPrompt(lastResponse, lastError)]
             response == llm[attempt + 1]
         IN IF parseError(response) = <<>>
            THEN [ok |-> TRUE, calls |-> Append(calls, prompt), error |-> <<>>,
                  result |-> <<response>>]
            ELSE attemptLoop(llm, attempt + 1, <<response>>,
                             parseError(response), Append(calls, prompt))

callGeminiWithJsonRetry(llm) == attemptLoop(llm, 0, <<>>, <<>>, <<>>)

DescribeInit ==
    /\ pc = "describe_init"
    /\ config \in [1 .. JSON_PARSE_MAX_RETRIES -> GeminiResponses]
    /\ entities = Null /\ similarities = Null
    /\ entityStates = Null /\ clusters = EmptyMap /\ eventQueue = <<>>
    /\ currentTime = 0 /\ nextClusterId = 1 /\ waitEnd = Null
    /\ logs = NoLogs /\ pending = {} /\ worker = NoWorkers
    /\ observed = Null

\* job.ts, GENERATE phase: the call returns a result or throws
Generate ==
    /\ pc = "describe_init"
    /\ pc' = "describe_done"
    /\ observed' = callGeminiWithJsonRetry(config)
    /\ UNCHANGED <<config, entities, similarities, entityStates, clusters,
                   eventQueue, currentTime, nextClusterId, waitEnd,
                   logs, pending, worker>>

DescribeNext == Generate

SpecDescribe == DescribeInit /\ [][DescribeNext]_vars

----------------------------------------------------------------------------
(* The workflow: scatter -> extract -> dedupe -> cluster -> describe, and   *)
(* describe -> cluster again one level up                                   *)

MaxInputs == 2
MaxRecursionDepth == 10

InputIds == 1 .. MaxInputs

\* the answers of the LLM to one describe call
DescribeAnswers ==
    [1 .. JSON_PARSE_MAX_RETRIES -> {r \in GeminiResponses : r.length = 100}]

ClusterOutcomes == {"TERMINATED", "JOINED", "DISSOLVED"}

Invocation(klados, target, level) == [klados |-> klados, target |-> target, level |-> level]

\* the log of an invocation: log ids are opaque, so each invocation gets the
\* id of its place in the workflow
LogsPerBranch == 2 * MaxRecursionDepth + 6

logIdOf(inv) ==
    RootLog + (inv.target - 1) * LogsPerBranch
        + (CASE inv.klados = "extract" -> 1
             [] inv.klados = "dedupe" -> 2
             [] inv.klados = "cluster" -> 3 + 2 * inv.level
             [] inv.klados = "describe" -> 4 + 2 * inv.level)

StageLog(klados) ==
    [status |-> "running", handoffs |-> <<>>, messages |-> <<>>, sentTo |-> <<>>,
     klados_id |-> klados]

StageWorker(inv) ==
    [klados |-> inv.klados, target |-> inv.target, level |-> inv.level,
     pc |-> "running", invocations |-> <<>>]

\* invokeRhiza: the job collection and the root scatter log exist, status started
WorkflowInit ==
    /\ pc = "workflow"
    /\ \E ids \in DistinctSeqs(InputIds) : config = [entity_ids |-> ids]
    /\ entities = {}             \* the cluster leaders that have a description
    /\ similarities = Null
    /\ entityStates = Null /\ clusters = EmptyMap /\ eventQueue = <<>>
    /\ currentTime = 0 /\ nextClusterId = 1 /\ waitEnd = Null
    /\ logs = (RootLog :> StageLog("scatter"))
    /\ pending = {}
    /\ worker = (RootLog :> StageWorker(Invocation("scatter", Null, 0)))
    /\ observed = Null

\* the worker of log l closes its log with these handoffs and this status and
\* has fired these invocations
Finish(l, handoffs, status, invocations) ==
    /\ logs' = [logs EXCEPT ![l].handoffs = handoffs, ![l].status = status]
    /\ worker' = [worker EXCEPT ![l].pc = "finished", ![l].invocations = invocations]

\* the mutant of scatterInvocations: the last id is not dispatched
scatterInvocations_DropLast(ids) ==
    [i \in 1 .. (Len(ids) - 1) |-> Invocation("extract", ids[i], 0)]

\* one downstream invocation per entity id
scatterInvocations(ids) ==
    [i \in 1 .. Len(ids) |-> Invocation("extract", ids[i], 0)]

ScatterCoordinator ==
    /\ pc = "workflow"
    /\ \E l \in DOMAIN logs :
          /\ worker[l].klados = "scatter" /\ worker[l].pc = "running"
          /\ Finish(l, <<[type |-> "scatter", outputs |-> config.entity_ids]>>, "done",
                    scatterInvocations(config.entity_ids))
    /\ UNCHANGED <<pc, config, entities, similarities, entityStates, clusters,
                   eventQueue, currentTime, nextClusterId, waitEnd, pending, observed>>

\* extract and dedupe pass their entity on to the next stage
PassWorker ==
    /\ pc = "workflow"
    /\ \E l \in DOMAIN logs :
          /\ worker[l].klados \in {"extract", "dedupe"} /\ worker[l].pc = "running"
          /\ Finish(l, <<[type |-> "pass", outputs |-> <<worker[l].target>>]>>, "done",
                    <<Invocation(IF worker[l].klados = "extract" THEN "dedupe"
                                 ELSE "cluster", worker[l].target, 0)>>)
    /\ UNCHANGED <<pc, config, entities, similarities, entityStates, clusters,
                   eventQueue, currentTime, nextClusterId, waitEnd, pending, observed>>

\* the mutant of maxDepthReached: no safety limit
maxDepthReached_Never(level) == FALSE

\* "Max depth reached: safety limit of 10 recursion levels"
maxDepthReached(level) == level >= MaxRecursionDepth

\* the cluster worker ends JOINED or DISSOLVED (returns [], the branch
\* terminates) or TERMINATED with a surviving cluster (invoke describe)
ClusterWorker ==
    /\ pc = "workflow"
    /\ \E l \in DOMAIN logs, outcome \in ClusterOutcomes :
          /\ worker[l].klados = "cluster" /\ worker[l].pc = "running"
          /\ outcome = "JOINED" =>
                \E m \in DOMAIN logs \ {l} :
                    worker[m].klados = "cluster" /\ worker[m].level = worker[l].level
          /\ IF outcome = "TERMINATED" /\ ~maxDepthReached(worker[l].level)
             THEN Finish(l, <<[type |-> "invoke", outputs |-> <<worker[l].target>>]>>,
                         "done",
                         <<Invocation("describe", worker[l].target, worker[l].level)>>)
             ELSE Finish(l, <<[type |-> "scatter", outputs |-> <<>>]>>, "done", <<>>)
    /\ UNCHANGED <<pc, config, entities, similarities, entityStates, clusters,
                   eventQueue, currentTime, nextClusterId, waitEnd, pending, observed>>

\* the describe worker: GENERATE, then store the description on the cluster
\* leader and invoke the cluster worker one level up; a throw fails the log
DescribeWorker ==
    /\ pc = "workflow"
    /\ \E l \in DOMAIN logs, llm \in DescribeAnswers :
          /\ worker[l].klados = "describe" /\ worker[l].pc = "running"
          /\ IF callGeminiWithJsonRetry(llm).ok
             THEN /\ entities' = entities \cup {<<worker[l].target, worker[l].level>>}
                  /\ Finish(l, <<[type |-> "invoke", outputs |-> <<worker[l].target>>]>>,
                            "done",
                            <<Invocation("cluster", worker[l].target,
                                         worker[l].level + 1)>>)
             ELSE /\ entities' = entities
                  /\ Finish(l, <<>>, "error", <<>>)
    /\ UNCHANGED <<pc, config, similarities, entityStates, clusters,
                   eventQueue, currentTime, nextClusterId, waitEnd, pending, observed>>

\* an invocation fired by the worker of log p starts: its log is written
\* with a sent_to from p
InvocationStarts ==
    /\ pc = "workflow"
    /\ \E p \in DOMAIN logs :
          LET new == logIdOf(Head(worker[p].invocations)) IN
          /\ worker[p].invocations # <<>>
          /\ logs' = [logs EXCEPT ![p] = AddSentTo(@, new)]
                        @@ (new :> StageLog(Head(worker[p].invocations).klados))
          /\ worker' = [worker EXCEPT ![p].invocations = Tail(@)]
                        @@ (new :> StageWorker(Head(worker[p].invocations)))
    /\ UNCHANGED <<pc, config, entities, similarities, entityStates, clusters,
                   eventQueue, currentTime, nextClusterId, waitEnd, pending, observed>>

WorkflowNext ==
    \/ ScatterCoordinator
    \/ PassWorker
    \/ ClusterWorker
    \/ DescribeWorker
    \/ InvocationStarts

SpecWorkflow == WorkflowInit /\ [][WorkflowNext]_vars

\* no worker is running and no invocation is waiting to start
WorkflowQuiescent ==
    \A l \in DOMAIN logs : worker[l].pc = "finished" /\ worker[l].invocations = <<>>

----------------------------------------------------------------------------
(* Properties of ClusterSimulation *)

ClustersOf(e) == {c \in DOMAIN clusters : e \in clusters[c].members}

SameLayer(a, b) == entities[a].layer = entities[b].layer

Similar(a, b) == \E i \in 1 .. Len(similarities[a]) : similarities[a][i] = b

\* the entity left the solo cluster it created and is a member of another one
FallbackJoined(e) ==
    /\ waitEnd[e].ranFallback
    /\ entityStates[e].clusterId # Null
    /\ entityStates[e].clusterId # waitEnd[e].myClusterId
    /\ ClustersOf(e) = {entityStates[e].clusterId}

\* C1: no entity is ever a member of more than one cluster
C1_MembershipUnique == \A e \in EntityIds : Cardinality(ClustersOf(e)) <= 1

C1_Witness == \E e \in EntityIds : FallbackJoined(e)

\* C2: once a leader's follower_wait_ends event is processed, the cluster it
\* created is deleted or has a member; the cluster map never holds an empty cluster
C2_NoEmptyCluster ==
    /\ \A c \in DOMAIN clusters : clusters[c].members # {}
    /\ \A e \in EntityIds :
          waitEnd[e].fired =>
             \/ waitEnd[e].myClusterId \notin DOMAIN clusters
             \/ clusters[waitEnd[e].myClusterId].members # {}

C2_Witness ==
    \E e \in EntityIds : /\ waitEnd[e].ranFallback
                         /\ waitEnd[e].myClusterId \notin DOMAIN clusters
                         /\ clusters # EmptyMap

\* e ended the run as the only member of the cluster it leads
SoloLeaderAtEnd(e) ==
    /\ pc = "done"
    /\ entityStates[e].clusterId \in DOMAIN clusters
    /\ clusters[entityStates[e].clusterId].members = {e}
    /\ clusters[entityStates[e].clusterId].leaderId = e

\* C3 as stated: after a completed run no leader that ran the fallback while
\* another non-empty cluster existed at its layer is left in a cluster of size 1
C3_SoloConverges ==
    \A e \in EntityIds :
        (waitEnd[e].ranFallback /\ waitEnd[e].otherCluster) => ~SoloLeaderAtEnd(e)

\* C3 amended: no leader is left solo that ran the fallback while another
\* cluster of its layer held an indexed entry of its similarity list or an
\* entity with a smaller id
C3_SoloConvergesWhenJoinable ==
    \A e \in EntityIds :
        (waitEnd[e].ranFallback /\ waitEnd[e].joinable) => ~SoloLeaderAtEnd(e)

C3_Witness ==
    /\ pc = "done"
    /\ \E e \in EntityIds : waitEnd[e].joinable /\ FallbackJoined(e)
    /\ \E e \in EntityIds : waitEnd[e].ranFallback /\ SoloLeaderAtEnd(e)

OnlyTwoAtLayer(a, b) ==
    {e \in EntityIds : SameLayer(e, a)} = {a, b}

\* one cluster holds both entities; of the two clusters they created one is left
OneJoinedTheOther(a, b) ==
    /\ entityStates[a].clusterId = entityStates[b].clusterId
    /\ entityStates[a].clusterId \in DOMAIN clusters
    /\ {a, b} \subseteq clusters[entityStates[a].clusterId].members
    /\ Cardinality({waitEnd[a].myClusterId, waitEnd[b].myClusterId} \cap DOMAIN clusters) = 1
    /\ entityStates[a].clusterId \in {waitEnd[a].myClusterId, waitEnd[b].myClusterId}

BothCreated(a, b) ==
    /\ a # b
    /\ SameLayer(a, b)
    /\ Similar(a, b) /\ Similar(b, a)
    /\ waitEnd[a].fired /\ waitEnd[b].fired

\* C4 as stated: two similar same-layer entities that each created a solo
\* cluster end in one cluster, and exactly one of their two clusters is gone
C4_RaceResolved ==
    pc = "done" =>
        \A a, b \in EntityIds : BothCreated(a, b) => OneJoinedTheOther(a, b)

\* C4 amended: the same, for two entities that are alone at their layer and
\* were both waiting leaders when the first of the two timers fired
C4_RaceResolvedForPair ==
    pc = "done" =>
        \A a, b \in EntityIds :
            (BothCreated(a, b) /\ OnlyTwoAtLayer(a, b) /\ b \in waitEnd[a].waitingPeers)
                => OneJoinedTheOther(a, b)

C4_Witness ==
    /\ pc = "done"
    /\ \E a, b \in EntityIds :
          /\ BothCreated(a, b) /\ OnlyTwoAtLayer(a, b) /\ b \in waitEnd[a].waitingPeers
          /\ OneJoinedTheOther(a, b)
          /\ a > b

AloneAtLayer(e) == {x \in EntityIds : SameLayer(x, e)} = {e}

\* C5: an entity alone at its layer ends the run without a cluster, and the
\* solo cluster it created is deleted
C5_LoneEntityDissolves ==
    pc = "done" =>
        \A e \in EntityIds :
            AloneAtLayer(e) =>
                /\ entityStates[e].clusterId = Null
                /\ \A c \in DOMAIN clusters : clusters[c].leaderId # e

\* validation check 1: the clusters each entity is a member of
V_clusterList(e) == {c \in DOMAIN clusters : e \in clusters[c].members}

V_inNone == Cardinality({e \in EntityIds : V_clusterList(e) = {}})

V_inMultiple == Cardinality({e \in EntityIds : Cardinality(V_clusterList(e)) > 1})

\* validation check 2: the entities whose state disagrees with the membership
V_mismatches ==
    Cardinality({e \in EntityIds :
        \/ entityStates[e].clusterId # Null /\ V_clusterList(e) = {}
        \/ entityStates[e].clusterId = Null /\ V_clusterList(e) # {}
        \/ /\ entityStates[e].clusterId # Null
           /\ Cardinality(V_clusterList(e)) = 1
           /\ V_clusterList(e) # {entityStates[e].clusterId}})

\* C6: when the validator's queue is drained every entity is a member of
\* exactly one cluster and its state names that cluster
C6_ValidatorExactlyOne ==
    pc = "v_done" =>
        /\ V_inNone = 0 /\ V_inMultiple = 0 /\ V_mismatches = 0
        /\ \A e \in EntityIds : V_clusterList(e) = {entityStates[e].clusterId}

C6_Witness ==
    /\ pc = "v_done"
    /\ \E c \in DOMAIN clusters : Cardinality(clusters[c].members) >= 2
    /\ Cardinality(DOMAIN clusters) >= 2

\* C7: every member of a cluster has the layer of the entity that created it
C7_LayerContract ==
    \A c \in DOMAIN clusters :
        \A m \in clusters[c].members : SameLayer(m, clusters[c].leaderId)

C7_Witness ==
    \E e \in EntityIds :
        /\ FallbackJoined(e)
        /\ \E x \in EntityIds : ~SameLayer(x, e) /\ entityStates[x].clusterId # Null
        /\ \E x \in EntityIds : x < e /\ ~SameLayer(x, e)

----------------------------------------------------------------------------
(* Properties of the workflow-tree observer *)

\* C8: isComplete holds exactly when every leaf log is terminal, every terminal
\* log of the tree has at least its expected number of children, and no log of
\* the tree has the expected count UNKNOWN
C8_CompleteIff ==
    pc = "observing" =>
        LET tree == Tree IN
        isComplete <=>
            /\ \A l \in collectLeaves(tree) : isTerminal(logs[l])
            /\ \A n \in tree.visited :
                  /\ getExpectedChildrenCount(logs[n]) # UNKNOWN
                  /\ isTerminal(logs[n]) =>
                        Len(tree.kids[n]) >= getExpectedChildrenCount(logs[n])

\* C9: when isComplete is reported, every log reachable from the root is done or error
C9_CompleteImpliesSealed ==
    pc = "observing" =>
        (isComplete => \A n \in Tree.visited : isTerminal(logs[n]))

\* C10: once isComplete is reported, no further log and no further additive
\* update makes the observer report false
C10_CompleteIsStable == [][pc = "observing" /\ isComplete => isComplete']_vars

\* C11: under fair scheduling of the workers and fair delivery of the additive
\* updates, every started workflow eventually reaches a state in which the
\* observer reports isComplete (runs cut short by the bound on logs set aside)
C11_EventuallyComplete == <>(isComplete \/ Starved)

\* C12: a terminal log whose only handoff is a scatter with an empty outputs
\* list (the worker ended JOINED or DISSOLVED) expects zero children, and a
\* tree whose logs are all terminal and have no child to wait for is complete
C12_EmptyScatterIsLeaf ==
    pc = "observing" =>
        \A l \in DOMAIN logs :
            isTerminal(logs[l]) /\ logs[l].handoffs = <<EmptyScatter>>
                /\ logs[l].messages = <<>>
            => /\ getExpectedChildrenCount(logs[l]) = 0
               /\ (l = RootLog /\ logs[l].sentTo = <<>> => isComplete)

RECURSIVE sumHandoffs(_)
\* the specified sum over the handoffs; UNKNOWN stops the count
sumHandoffs(hs) ==
    IF hs = <<>> THEN 0
    ELSE LET h == Head(hs)
             here == IF h.type \in {"invoke", "pass", "gather"} THEN 1
                     ELSE IF h.type # "scatter" THEN 0
                     ELSE IF HasField(h, "outputs") THEN Len(h.outputs)
                     ELSE IF HasField(h, "invocations") THEN Len(h.invocations)
                     ELSE IF HasField(h, "delegated") /\ h.delegated THEN UNKNOWN
                     ELSE 1
             rest == sumHandoffs(Tail(hs))
         IN IF here = UNKNOWN \/ rest = UNKNOWN THEN UNKNOWN ELSE here + rest

\* the specified expected_children of a log
expected_children(log) ==
    LET set == {i \in 1 .. Len(log.messages) :
                   HasField(log.messages[i], "metadata")
                       /\ HasField(log.messages[i].metadata, "numCopies")}
    IN IF set # {}
       THEN log.messages[CHOOSE i \in set : \A j \in set : i <= j].metadata.numCopies
       ELSE sumHandoffs(log.handoffs)

\* C13: getExpectedChildrenCount returns the specified expected_children: the
\* numCopies of a message that has one, else the sum over the handoffs with
\* len(outputs) for a scatter whose outputs are present, else len(invocations),
\* else UNKNOWN if delegated, else 1
C13_ExpectedAsSpecified ==
    pc = "expected_done" =>
        observed.expectedChildren = expected_children(logs[RootLog])

\* every log of the tree other than the error logs is terminal with all its
\* expected children, or is a running log that has children
OnlyErrorLogsOpen(tree) ==
    /\ \A n \in collectLeaves(tree) : isTerminal(logs[n])
    /\ \A n \in tree.visited :
          logs[n].status = "done" =>
              /\ getExpectedChildrenCount(logs[n]) >= 0
              /\ Len(tree.kids[n]) >= getExpectedChildrenCount(logs[n])

\* C14: a log with status error counts as a terminal leaf that expects no
\* children, whatever handoffs or numCopies it carries: when nothing but error
\* logs could be waited for, the observer reports the tree complete
C14_ErrorLogIsLeaf ==
    pc = "observing" =>
        /\ \A l \in DOMAIN logs :
              logs[l].status = "error" =>
                  isTerminal(logs[l]) /\ getExpectedChildrenCount(logs[l]) = 0
        /\ (OnlyErrorLogsOpen(Tree) => isComplete)

\* a terminal log of the tree carries an unresolved delegated scatter
DelegatedOpen(tree) ==
    \E l \in tree.visited :
        /\ isTerminal(logs[l])
        /\ logs[l].handoffs = <<Delegated>>
        /\ getExpectedChildrenCount(logs[l]) = UNKNOWN

\* a delegated scatter was resolved and every log of the tree is terminal
\* with its children present
DelegatedResolved(tree) ==
    /\ \E l \in tree.visited :
          /\ worker[l].delegate = "resolved"
          /\ logs[l].handoffs # <<Delegated>>
    /\ \A n \in tree.visited :
          /\ isTerminal(logs[n])
          /\ getExpectedChildrenCount(logs[n]) >= 0
          /\ Len(tree.kids[n]) >= getExpectedChildrenCount(logs[n])

\* C15: while a terminal log carries a delegated scatter with no outputs and
\* no invocations the observer does not report the tree complete, and once
\* the handoff is resolved and the child logs are there and terminal it does
C15_DelegatedKeepsPolling ==
    pc = "observing" =>
        /\ (DelegatedOpen(Tree) => ~isComplete)
        /\ (DelegatedResolved(Tree) => isComplete)

\* the attempts whose response parses and has a description
validAttempts == {k \in 1 .. JSON_PARSE_MAX_RETRIES : config[k].kind = "valid"}

\* C18: a describe call makes at most 3 LLM attempts; attempt k+1 is made only
\* if attempts 1..k all failed parsing or the schema check, and the first valid
\* response ends the loop with success (malformed, malformed, valid: success
\* on the third call, after two retries)
C18_AtMostThreeAttempts ==
    pc = "describe_done" =>
        /\ Len(observed.calls) <= 3
        /\ \A k \in 1 .. Len(observed.calls) - 1 : config[k].kind # "valid"
        /\ IF validAttempts = {}
           THEN ~observed.ok /\ Len(observed.calls) = 3
           ELSE /\ observed.ok
                /\ Len(observed.calls) \in validAttempts
                /\ \A k \in validAttempts : Len(observed.calls) <= k
                /\ observed.result = <<config[Len(observed.calls)]>>

C18_Witness ==
    /\ pc = "describe_done"
    /\ config[1].kind = "bad_json" /\ config[2].kind = "no_description"
    /\ config[3].kind = "valid"
    /\ observed.ok /\ Len(observed.calls) = 3

Range(q) == {q[i] : i \in 1 .. Len(q)}

ExtractLogs == {l \in DOMAIN logs : logs[l].klados_id = "extract"}

AllDispatched == worker[RootLog].pc = "finished" /\ worker[RootLog].invocations = <<>>

\* C16: for an invocation with N entity ids the root scatter log records one
\* scatter handoff whose outputs are exactly those ids, and exactly N extract
\* logs are created under it, one per input id, none dropped or duplicated
C16_OneBranchPerInput ==
    pc = "workflow" =>
        /\ worker[RootLog].pc = "finished" =>
              logs[RootLog].handoffs =
                  <<[type |-> "scatter", outputs |-> config.entity_ids]>>
        /\ \A l, m \in ExtractLogs : worker[l].target = worker[m].target => l = m
        /\ {worker[l].target : l \in ExtractLogs} \subseteq Range(config.entity_ids)
        /\ AllDispatched =>
              /\ Cardinality(ExtractLogs) = Len(config.entity_ids)
              /\ {worker[l].target : l \in ExtractLogs} = Range(config.entity_ids)
              /\ Range(logs[RootLog].sentTo) = ExtractLogs
              /\ Len(logs[RootLog].sentTo) = Len(config.entity_ids)

C16_Witness ==
    /\ pc = "workflow" /\ Len(config.entity_ids) = MaxInputs
    /\ AllDispatched
    /\ Cardinality(ExtractLogs) = MaxInputs

\* C17: along any branch the number of cluster -> describe -> cluster
\* recursion levels never exceeds 10
C17_DepthCapped ==
    pc = "workflow" => \A l \in DOMAIN logs : worker[l].level <= 10

C17_Witness ==
    /\ pc = "workflow"
    /\ \E l \in DOMAIN logs :
          /\ worker[l].klados = "cluster" /\ worker[l].level = 10
          /\ worker[l].pc = "finished"

\* C19: when all 3 describe attempts returned invalid JSON the describe log
\* ends with status error, no description is stored on the cluster leader, no
\* handoff is emitted and no downstream worker starts, and the workflow
\* still becomes complete
C19_DescribeFailsHard ==
    pc = "workflow" =>
        \A l \in DOMAIN logs :
            worker[l].klados = "describe" /\ logs[l].status = "error" =>
                /\ <<worker[l].target, worker[l].level>> \notin entities
                /\ logs[l].handoffs = <<>> /\ logs[l].sentTo = <<>>
                /\ worker[l].invocations = <<>>
                /\ (WorkflowQuiescent => isComplete)

\* C20: when several child logs are created concurrently under one parent,
\* once their sent_to updates have been applied the parent has a sent_to to
\* every one of them, whatever the order of application: none is lost or
\* overwritten, none is there twice
C20_NoSentToLost ==
    pc = "observing" =>
        \A c \in DOMAIN logs : \A p \in worker[c].parentLogIds :
            /\ [kind |-> "sent_to", log |-> p, peer |-> c] \notin pending
                  => c \in Range(logs[p].sentTo)
            /\ Cardinality(Range(logs[p].sentTo)) = Len(logs[p].sentTo)

\* two children of the root whose sent_to updates were applied in the order
\* opposite to their creation
C20_Witness ==
    /\ pc = "observing"
    /\ logs[RootLog].sentTo = <<3, 2>>
    /\ RootLog \in worker[2].parentLogIds \cap worker[3].parentLogIds

\* C21: a log's status changes only from running to done or from running to
\* error; once it is done or error no update, in whatever order the additive
\* updates are delivered, changes it again
C21_StatusSealedOnce ==
    [][pc = "observing" =>
          \A l \in DOMAIN logs :
              logs'[l].status # logs[l].status =>
                  /\ logs[l].status = "running"
                  /\ logs'[l].status \in {"done", "error"}]_vars

\* a log is sealed while its handoffs update is still to be delivered
C21_Witness ==
    /\ pc = "observing"
    /\ \E l \in DOMAIN logs :
          /\ isTerminal(logs[l])
          /\ \E u \in pending : u.log = l /\ u.kind = "handoffs"

----------------------------------------------------------------------------
(* The registration script: main() of the workflow registration            *)

\* strings are sequences of characters
Dollar == "$"
startsWithDollar(str) == Len(str) > 0 /\ str[1] = Dollar

\* JSON values
Str(str) == [type |-> "string", s |-> str]
Num == [type |-> "number"]
Arr(items) == [type |-> "array", items |-> items]
Obj(pairs) == [type |-> "object", pairs |-> pairs]

EnvNames == {<<"A">>, <<"B">>}
EnvValues == {<<>>, <<"v">>}
\* process.env: a variable is set (possibly to the empty string) or not
Environments == UNION {[names -> EnvValues] : names \in SUBSET EnvNames}

WorkflowStrings == {<<"l">>, <<Dollar, "A">>, <<Dollar, "B">>}
WorkflowKeys == {<<"i", "d">>, <<Dollar, "A">>}
WorkflowLeaves == {Str(str) : str \in WorkflowStrings} \cup {Num}
WorkflowSteps ==
    WorkflowLeaves
    \cup {Arr(<<a, b>>) : a \in WorkflowLeaves, b \in WorkflowLeaves}
    \cup {Obj(<<<<k, v>>>>) : k \in WorkflowKeys, v \in WorkflowLeaves}
\* the parsed workflow definition: {label, flow}
Workflows ==
    {Obj(<<<<<<"l", "a">>, Str(label)>>, <<<<"f">>, step>>>>) :
        label \in {<<"l">>, <<Dollar, "B">>}, step \in WorkflowSteps}

Returned(value) == [threw |-> FALSE, value |-> value, error |-> <<>>]
Thrown(envVar) == [threw |-> TRUE, value |-> Num, error |-> envVar]

\* result[newKey] = value: an existing key keeps its place
putKey(pairs, key, value) ==
    IF \E i \in 1 .. Len(pairs) : pairs[i][1] = key
    THEN [i \in 1 .. Len(pairs) |->
            IF pairs[i][1] = key THEN <<key, value>> ELSE pairs[i]]
    ELSE Append(pairs, <<key, value>>)

\* the mutant of substituteString: an unset variable leaves the value as it is
substituteString_KeepUnset(env, str) ==
    IF startsWithDollar(str)
    THEN IF Tail(str) \in DOMAIN env /\ env[Tail(str)] # <<>>
         THEN Returned(Str(env[Tail(str)]))
         ELSE Returned(Str(str))
    ELSE Returned(Str(str))

\* substituteEnvVars, the string case
substituteString(env, str) ==
    IF startsWithDollar(str)
    THEN LET envVar == Tail(str)
         IN  IF envVar \in DOMAIN env /\ env[envVar] # <<>>
             THEN Returned(Str(env[envVar]))
             ELSE Thrown(envVar)
    ELSE Returned(Str(str))

\* the key of an entry: process.env[key.slice(1)] ?? key
substituteKey(env, key) ==
    IF startsWithDollar(key) /\ Tail(key) \in DOMAIN env THEN env[Tail(key)] ELSE key

RECURSIVE substituteEnvVars(_, _)
RECURSIVE substituteItems(_, _, _, _)
RECURSIVE substituteEntries(_, _, _, _)

\* obj.map(substituteEnvVars): the first throw ends the map
substituteItems(env, items, i, done) ==
    IF i > Len(items) THEN Returned(Arr(done))
    ELSE LET r == substituteEnvVars(env, items[i])
         IN  IF r.threw THEN r
             ELSE substituteItems(env, items, i + 1, Append(done, r.value))

\* the loop over Object.entries(obj)
substituteEntries(env, pairs, i, result) ==
    IF i > Len(pairs) THEN Returned(Obj(result))
    ELSE LET newKey == substituteKey(env, pairs[i][1])
             r == substituteEnvVars(env, pairs[i][2])
         IN  IF r.threw THEN r
             ELSE substituteEntries(env, pairs, i + 1, putKey(result, newKey, r.value))

substituteEnvVars(env, obj) ==
    CASE obj.type = "string" -> substituteString(env, obj.s)
      [] obj.type = "array" -> substituteItems(env, obj.items, 1, <<>>)
      [] obj.type = "object" -> substituteEntries(env, obj.pairs, 1, <<>>)
      [] OTHER -> Returned(obj)

\* the answers of syncRhiza: a dry run reports what it would do, a sync
\* reports what it did together with the new state, and either may throw
DryRunResults ==
    {[action |-> a, hasState |-> FALSE, threw |-> FALSE] :
        a \in {"would_create", "would_update", "unchanged"}}
SyncResults ==
    {[action |-> a, hasState |-> TRUE, threw |-> FALSE] :
        a \in {"created", "updated", "unchanged"}}
SyncThrows == [action |-> "none", hasState |-> FALSE, threw |-> TRUE]
syncRhiza(dryRun) ==
    (IF dryRun THEN DryRunResults ELSE SyncResults) \cup {SyncThrows}

\* the mutant of isDryRunResult: unchanged never counts as a dry run
isDryRunResult_NoUnchanged(result) ==
    \/ result.action = "would_create"
    \/ result.action = "would_update"

isDryRunResult(result) ==
    \/ result.action = "would_create"
    \/ result.action = "would_update"
    \/ (result.action = "unchanged" /\ ~result.hasState)

Running == -1
NoEffects ==
    [exitCode |-> Running, substituted |-> FALSE, stateRead |-> FALSE,
     clientCreated |-> FALSE, syncCalled |-> FALSE, stateWritten |-> FALSE,
     result |-> SyncThrows]

RegisterInit ==
    /\ pc = "main"
    /\ config \in [userKey : BOOLEAN, fileExists : BOOLEAN, dryRun : BOOLEAN,
                   workflow : Workflows, env : Environments]
    /\ entities = Null /\ similarities = Null
    /\ entityStates = Null /\ clusters = EmptyMap /\ eventQueue = <<>>
    /\ currentTime = 0 /\ nextClusterId = 1 /\ waitEnd = Null
    /\ logs = NoLogs /\ pending = {} /\ worker = NoWorkers
    /\ observed = NoEffects

registerFrame ==
    <<config, entities, similarities, entityStates, clusters, eventQueue,
      currentTime, nextClusterId, waitEnd, logs, pending, worker>>

\* process.exit(code), or main returning (code 0)
Exit(effects, code) ==
    /\ pc' = "exited"
    /\ observed' = [effects EXCEPT !.exitCode = code]

\* main up to the await of syncRhiza
MainStart ==
    /\ pc = "main"
    /\ UNCHANGED registerFrame
    /\ IF ~config.userKey THEN Exit(observed, 1)
       ELSE IF ~config.fileExists THEN Exit(observed, 1)
       ELSE IF substituteEnvVars(config.env, config.workflow).threw
            THEN Exit(observed, 1)
       ELSE /\ pc' = "awaiting_sync"
            /\ observed' = [observed EXCEPT !.substituted = TRUE,
                                            !.stateRead = TRUE,
                                            !.clientCreated = TRUE,
                                            !.syncCalled = TRUE]

\* main after the await: the result handling and the catch
MainResume ==
    /\ pc = "awaiting_sync"
    /\ UNCHANGED registerFrame
    /\ \E result \in syncRhiza(config.dryRun) :
          LET seen == [observed EXCEPT !.result = result]
          IN  IF result.threw THEN Exit(seen, 1)
              ELSE IF isDryRunResult(result) THEN Exit(seen, 0)
              ELSE LET saved == [seen EXCEPT !.stateWritten = (result.action # "unchanged")]
                   \* newState.rhiza_id throws when the result has no state
                   IN  IF result.hasState THEN Exit(saved, 0) ELSE Exit(saved, 1)

RegisterNext == MainStart \/ MainResume

SpecRegister == RegisterInit /\ [][RegisterNext]_vars

\* the definition holds a string value $NAME whose variable is not set
RECURSIVE hasUnsetValue(_, _)
hasUnsetValue(env, obj) ==
    CASE obj.type = "string" ->
            /\ startsWithDollar(obj.s)
            /\ Len(obj.s) > 1
            /\ Tail(obj.s) \notin DOMAIN env
      [] obj.type = "array" ->
            \E i \in 1 .. Len(obj.items) : hasUnsetValue(env, obj.items[i])
      [] obj.type = "object" ->
            \E i \in 1 .. Len(obj.pairs) : hasUnsetValue(env, obj.pairs[i][2])
      [] OTHER -> FALSE

\* C23: when the workflow definition holds a string value $NAME whose
\* environment variable is not set, registration exits with code 1 and the
\* API client is never created, syncRhiza never called, no state file written
C23_UnsetVariableAborts ==
    (pc \in {"main", "awaiting_sync", "exited"}
        /\ hasUnsetValue(config.env, config.workflow)) =>
        /\ ~observed.clientCreated
        /\ ~observed.syncCalled
        /\ ~observed.stateWritten
        /\ pc # "awaiting_sync"
        /\ (pc = "exited" => observed.exitCode = 1)

\* the key and the file are there, and the abort comes from the substitution
C23_Witness ==
    /\ pc = "exited"
    /\ config.userKey /\ config.fileExists
    /\ hasUnsetValue(config.env, config.workflow)
    /\ observed.exitCode = 1

\* C24 as stated: the state file is written only when a sync that is not a
\* dry run reports an action other than unchanged, and with --dry-run the
\* state file is never written and the process ends with exit code 0
C24_DryRunExitsZero ==
    /\ observed.stateWritten =>
          /\ ~config.dryRun
          /\ ~observed.result.threw
          /\ observed.result.action # "unchanged"
    /\ config.dryRun => ~observed.stateWritten
    /\ (config.dryRun /\ pc = "exited") => observed.exitCode = 0

\* C24 amended: the state file is written only when a sync that is not a dry
\* run reports an action other than unchanged; with --dry-run it is never
\* written, and the process ends with exit code 0 exactly when syncRhiza was
\* reached and returned a result (exit code 1 when the key, the workflow file
\* or a variable is missing, or syncRhiza throws)
C24_DryRunExitsZeroWhenSynced ==
    /\ observed.stateWritten =>
          /\ ~config.dryRun
          /\ ~observed.result.threw
          /\ observed.result.action # "unchanged"
    /\ config.dryRun => ~observed.stateWritten
    /\ (config.dryRun /\ pc = "exited") =>
          (observed.exitCode = 0 <=> (observed.syncCalled /\ ~observed.result.threw))

\* a dry run that found nothing to change has ended
C24_Witness ==
    /\ pc = "exited"
    /\ config.dryRun
    /\ observed.syncCalled
    /\ observed.result.action = "unchanged"
    /\ observed.exitCode = 0

----------------------------------------------------------------------------
(* The additive update of an entity, and the describe worker writing its   *)
(* output to the cluster through it                                        *)

Scalar(v) == [type |-> "scalar", v |-> v]
Object(fields) == [type |-> "object", fields |-> fields]

\* the mutant of deepMerge: a key the entity already has keeps its value
deepMerge_KeepEarlier(target, source) ==
    [k \in DOMAIN target \cup DOMAIN source |->
        IF k \in DOMAIN target THEN target[k] ELSE source[k]]

\* properties are deep-merged: nested objects are merged key by key, any
\* other value of the update replaces the value of the entity
RECURSIVE deepMerge(_, _)
deepMerge(target, source) ==
    [k \in DOMAIN target \cup DOMAIN source |->
        IF k \notin DOMAIN source THEN target[k]
        ELSE IF k \notin DOMAIN target THEN source[k]
        ELSE IF target[k].type = "object" /\ source[k].type = "object"
             THEN Object(deepMerge(target[k].fields, source[k].fields))
             ELSE source[k]]

sameRelationship(r, q) == r.predicate = q.predicate /\ r.peer = q.peer

\* the mutant of upsertRelationship: the relationship is always appended
upsertRelationship_Append(rels, r) == Append(rels, r)

\* relationships_add adds the relationship or updates the one already there
upsertRelationship(rels, r) ==
    IF \E i \in 1 .. Len(rels) : sameRelationship(rels[i], r)
    THEN [i \in 1 .. Len(rels) |-> IF sameRelationship(rels[i], r) THEN r ELSE rels[i]]
    ELSE Append(rels, r)

RECURSIVE upsertRelationships(_, _)
upsertRelationships(rels, adds) ==
    IF adds = <<>> THEN rels
    ELSE upsertRelationships(upsertRelationship(rels, Head(adds)), Tail(adds))

\* one update of /updates/additive applied to an entity
additiveUpdate(entity, update) ==
    [properties |-> deepMerge(entity.properties, update.properties),
     relationships |-> upsertRelationships(entity.relationships, update.relationships_add)]

Relationship(peer, note) == [predicate |-> "summarizes", peer |-> peer, note |-> note]
MemberPeers == {1, 2}
Notes == {1, 2}
RelationshipLists ==
    {<<>>}
    \cup {<<Relationship(p, n)>> : p \in MemberPeers, n \in Notes}
    \cup {<<Relationship(pq[1], n), Relationship(pq[2], 1)>> :
            pq \in {x \in MemberPeers \X MemberPeers : x[1] # x[2]}, n \in Notes}

\* what one describe run writes: a description always, a title and details
\* when the LLM gave them
DescriptionValues == {Scalar(1), Scalar(2)}
DetailValues == {Scalar(1), Object("a" :> Scalar(1)), Object("b" :> Scalar(2)),
                 Object(("a" :> Scalar(2)) @@ ("b" :> Scalar(2)))}
DescribeProperties ==
    {("description" :> d) : d \in DescriptionValues}
    \cup {("description" :> d) @@ ("details" :> t) :
            d \in DescriptionValues, t \in DetailValues}
DescribeOutputs ==
    [properties : DescribeProperties, relationships_add : RelationshipLists]

\* the cluster as the cluster worker left it
NewCluster ==
    [properties |-> ("label" :> Scalar(0)), relationships |-> <<>>]

DescribeTwiceInit ==
    /\ pc = "describing"
    /\ config \in [first : DescribeOutputs, second : DescribeOutputs]
    /\ entities = Null /\ similarities = Null
    /\ entityStates = Null /\ clusters = EmptyMap /\ eventQueue = <<>>
    /\ currentTime = 0 /\ nextClusterId = 1 /\ waitEnd = Null
    /\ logs = NoLogs /\ pending = {} /\ worker = NoWorkers
    /\ observed = [cluster |-> NewCluster, runs |-> 0]

\* one run of the describe worker on the cluster
DescribeWrites ==
    /\ pc = "describing"
    /\ observed.runs < 2
    /\ LET output == IF observed.runs = 0 THEN config.first ELSE config.second
       IN  observed' = [cluster |-> additiveUpdate(observed.cluster, output),
                        runs |-> observed.runs + 1]
    /\ UNCHANGED <<pc, config, entities, similarities, entityStates, clusters,
                   eventQueue, currentTime, nextClusterId, waitEnd,
                   logs, pending, worker>>

DescribeTwiceNext == DescribeWrites

SpecDescribeTwice == DescribeTwiceInit /\ [][DescribeTwiceNext]_vars

Relations(rels) == {rels[i] : i \in 1 .. Len(rels)}
noDuplicateRelationships(rels) ==
    \A i, j \in 1 .. Len(rels) : sameRelationship(rels[i], rels[j]) => i = j
sameState(a, b) ==
    /\ a.properties = b.properties
    /\ Relations(a.relationships) = Relations(b.relationships)

\* every key of the earlier properties is a key of the later ones, objects
\* key by key
RECURSIVE namesEveryKey(_, _)
namesEveryKey(later, earlier) ==
    \A k \in DOMAIN earlier :
        /\ k \in DOMAIN later
        /\ (earlier[k].type = "object" /\ later[k].type = "object") =>
              namesEveryKey(later[k].fields, earlier[k].fields)
namesEveryRelationship(later, earlier) ==
    \A i \in 1 .. Len(earlier) : \E j \in 1 .. Len(later) :
        sameRelationship(earlier[i], later[j])

isPrefix(short, long) ==
    /\ Len(short) <= Len(long)
    /\ \A i \in 1 .. Len(short) : short[i] = long[i]

processes(type) ==
    /\ pc = "running"
    /\ eventQueue # <<>>
    /\ Head(eventQueue).type = type
eventsFor(q, type, e) ==
    {i \in 1 .. Len(q) : q[i].type = type /\ q[i].entityId = e}
clusterOf(e) == entityStates[e].clusterId
somePeerClustered(peers) ==
    \E i \in 1 .. Len(peers) : clusterOf(peers[i]) # Null

\* the step made me a member of the existing cluster of one of the peers
joinsPeerCluster(me, peers) ==
    /\ eventQueue' = Tail(eventQueue)
    /\ nextClusterId' = nextClusterId
    /\ entityStates'[me].clusterId \in DOMAIN clusters
    /\ \E i \in 1 .. Len(peers) : clusterOf(peers[i]) = entityStates'[me].clusterId
    /\ me \in clusters'[entityStates'[me].clusterId].members
    /\ ~entityStates'[me].isClusterLeader

\* the step made me the leader of a new cluster of one and queued the end of
\* my follower wait
leadsNewCluster(me) ==
    /\ nextClusterId' = nextClusterId + 1
    /\ DOMAIN clusters' = DOMAIN clusters \cup {nextClusterId}
    /\ clusters'[nextClusterId].members = {me}
    /\ clusters'[nextClusterId].leaderId = me
    /\ entityStates'[me].clusterId = nextClusterId
    /\ entityStates'[me].isClusterLeader
    /\ entityStates'[me].waitingForFollowers
    /\ Cardinality(eventsFor(eventQueue', "follower_wait_ends", me)) = 1
    /\ Len(eventQueue') = Len(eventQueue)

\* the step queued one recheck of me, recheckDelayMs from now, and nothing else
schedulesRecheck(me, now) ==
    /\ Cardinality(eventsFor(eventQueue', "entity_rechecks", me)) = 1
    /\ \A i \in eventsFor(eventQueue', "entity_rechecks", me) :
          eventQueue'[i].time = now + config.recheckDelayMs
    /\ Len(eventQueue') = Len(eventQueue)
    /\ entityStates'[me].clusterId = Null
    /\ clusters' = clusters
    /\ nextClusterId' = nextClusterId

\* C26: on its first search an entity joins an existing cluster iff some
\* visible peer has a cluster; otherwise it schedules one recheck after
\* recheckDelayMs iff a peer is visible; otherwise it creates a cluster of
\* itself and starts the follower wait
C26_FirstSearch ==
    [][processes("entity_searches") =>
          LET ev == Head(eventQueue)
              me == ev.entityId
              peers == getVisiblePeers(me, entities[me].layer)
          IN  /\ joinsPeerCluster(me, peers) <=> somePeerClustered(peers)
              /\ schedulesRecheck(me, ev.time) <=>
                    (~somePeerClustered(peers) /\ Len(peers) > 0)
              /\ leadsNewCluster(me) <=> Len(peers) = 0]_vars

\* one entity leads, one has joined and one waits for its recheck
C26_Witness ==
    /\ pc = "running"
    /\ \E a, b, c \in EntityIds :
          /\ entityStates[a].isClusterLeader
          /\ clusterOf(b) # Null /\ ~entityStates[b].isClusterLeader
          /\ eventsFor(eventQueue, "entity_rechecks", c) # {}

\* C27: when the recheck of an entity fires it joins the cluster of a
\* clustered visible peer or else creates its own cluster and starts the
\* follower wait; it queues no further recheck, and a recheck is queued only
\* by the first search of an entity, so each entity rechecks at most once
C27_RecheckOnce ==
    [][/\ processes("entity_rechecks") =>
            LET ev == Head(eventQueue)
                me == ev.entityId
                peers == getVisiblePeers(me, entities[me].layer)
            IN  /\ joinsPeerCluster(me, peers) <=> somePeerClustered(peers)
                /\ leadsNewCluster(me) <=> ~somePeerClustered(peers)
                /\ eventsFor(eventQueue', "entity_rechecks", me) = {}
       /\ processes("entity_searches") =>
            /\ clusterOf(Head(eventQueue).entityId) = Null
            /\ ~entityStates[Head(eventQueue).entityId].processing
            /\ \/ entityStates'[Head(eventQueue).entityId].clusterId # Null
               \/ entityStates'[Head(eventQueue).entityId].processing
       /\ pc = "running" =>
            \A e \in EntityIds :
                /\ Cardinality(eventsFor(eventQueue', "entity_rechecks", e)) <= 1
                /\ (/\ eventsFor(eventQueue', "entity_rechecks", e) # {}
                    /\ eventsFor(eventQueue, "entity_rechecks", e) = {}) =>
                      (processes("entity_searches") /\ Head(eventQueue).entityId = e)]_vars

\* all entities arrived at time 0 and one leads a cluster it created on its
\* recheck
C27_Witness ==
    /\ pc = "running"
    /\ config.arrivalSpreadMs = 0
    /\ \E e \in EntityIds :
          /\ entityStates[e].isClusterLeader
          /\ entityStates[e].followerWaitStartTime = {config.recheckDelayMs}

\* C28: when the follower wait of a leader ends the fallback runs iff its
\* cluster has exactly one member; with more than one member the clusters and
\* every membership stay as they are and the leader stays the leader
C28_FallbackIffSolo ==
    [][processes("follower_wait_ends") =>
          LET ev == Head(eventQueue)
              me == ev.entityId
              c == ev.clusterId
          IN  /\ c \in DOMAIN clusters
              /\ me \in clusters[c].members
              /\ waitEnd'[me].ranFallback <=> Cardinality(clusters[c].members) = 1
              /\ Cardinality(clusters[c].members) > 1 =>
                    /\ clusters' = clusters
                    /\ \A e \in EntityIds :
                          entityStates'[e].clusterId = entityStates[e].clusterId
                    /\ entityStates'[me].isClusterLeader
                    /\ clusters'[c].leaderId = me]_vars

\* a follower wait has ended on a cluster that had found a follower
C28_Witness ==
    \E e \in EntityIds :
        /\ waitEnd[e].fired
        /\ ~waitEnd[e].ranFallback
        /\ entityStates[e].isClusterLeader
        /\ clusterOf(e) \in DOMAIN clusters
        /\ Cardinality(clusters[clusterOf(e)].members) > 1

\* the entries of my similarity list, in the order of the list (descending
\* score), that are of my layer, indexed and in a cluster other than mine
semanticCandidates(me, mine) ==
    LET candidate(p) == /\ entities[p].layer = entities[me].layer
                        /\ entityStates[p].indexed
                        /\ clusterOf(p) # Null
                        /\ clusterOf(p) # mine
    IN SelectSeq(similarities[me], candidate)

\* the step moved me from my solo cluster, which is deleted, to the target
movesTo(me, mine, target) ==
    /\ entityStates'[me].clusterId = target
    /\ ~entityStates'[me].isClusterLeader
    /\ mine \notin DOMAIN clusters'
    /\ target \in DOMAIN clusters'
    /\ clusters'[target].members = clusters[target].members \cup {me}

soloWaitEnds ==
    /\ processes("follower_wait_ends")
    /\ Head(eventQueue).clusterId \in DOMAIN clusters
    /\ clusters[Head(eventQueue).clusterId].members = {Head(eventQueue).entityId}

\* C29: in the semantic fallback a solo leader takes the first entry of its
\* whole similarity list, beyond the first K too, that is of its layer,
\* indexed and in another cluster, joins that cluster, its own cluster is
\* deleted and it is no leader any more, whatever the lexicographic walk
\* would have found
C29_SemanticFallback ==
    [][soloWaitEnds =>
          LET me == Head(eventQueue).entityId
              mine == Head(eventQueue).clusterId
              found == semanticCandidates(me, mine)
          IN  found # <<>> => movesTo(me, mine, clusterOf(Head(found)))]_vars

\* with K = 1 a leader of the smallest id of its cluster has joined the
\* cluster of the second entry of its similarity list
C29_Witness ==
    /\ config.k = 1
    /\ \E e \in EntityIds :
          /\ waitEnd[e].ranFallback
          /\ clusterOf(e) \notin {Null, waitEnd[e].myClusterId}
          /\ Len(similarities[e]) = 2
          /\ clusterOf(similarities[e][1]) # clusterOf(e)
          /\ clusterOf(similarities[e][2]) = clusterOf(e)
          /\ \A p \in EntityIds : p < e => clusterOf(p) # clusterOf(e)

\* the entities of my layer with a smaller id and a cluster other than mine
clusteredPredecessors(me, mine) ==
    {p \in EntityIds : /\ p < me
                       /\ entities[p].layer = entities[me].layer
                       /\ clusterOf(p) # Null
                       /\ clusterOf(p) # mine}

\* C30: when the semantic fallback finds nothing, a solo leader joins the
\* cluster of the entity of its layer with the smallest id among those before
\* it that have another cluster; when there is none it stays the leader of
\* its solo cluster
C30_LexicographicFallback ==
    [][(soloWaitEnds /\ semanticCandidates(Head(eventQueue).entityId,
                                           Head(eventQueue).clusterId) = <<>>) =>
          LET me == Head(eventQueue).entityId
              mine == Head(eventQueue).clusterId
              before == clusteredPredecessors(me, mine)
              first == CHOOSE p \in before : \A q \in before : p <= q
          IN  IF before # {}
              THEN movesTo(me, mine, clusterOf(first))
              ELSE /\ clusters' = clusters
                   /\ entityStates'[me].clusterId = mine
                   /\ entityStates'[me].isClusterLeader]_vars

\* a leader has joined the cluster of a predecessor that holds no entry of
\* its similarity list
C30_Witness ==
    \E e \in EntityIds :
        /\ waitEnd[e].ranFallback
        /\ clusterOf(e) \notin {Null, waitEnd[e].myClusterId}
        /\ \A i \in 1 .. Len(similarities[e]) : clusterOf(similarities[e][i]) # clusterOf(e)
        /\ \E p \in EntityIds : p < e /\ clusterOf(p) = clusterOf(e)

\* the times at which the run processed an entity_arrives event of p
arrivalTimes(p) ==
    {observed.trace[i].time : i \in eventsFor(observed.trace, "entity_arrives", p)}

\* C31: the search an entity is about to make, first or recheck, returns at
\* most K peers, all of the searcher's layer, never the searcher, and only
\* peers that arrived at least indexDelayMs before
C31_SearchResult ==
    (processes("entity_searches") \/ processes("entity_rechecks")) =>
        LET ev == Head(eventQueue)
            me == ev.entityId
            peers == getVisiblePeers(me, entities[me].layer)
        IN  /\ Len(peers) <= config.k
            /\ \A i \in 1 .. Len(peers) :
                  /\ entities[peers[i]].layer = entities[me].layer
                  /\ peers[i] # me
                  /\ arrivalTimes(peers[i]) # {}
                  /\ \A t \in arrivalTimes(peers[i]) : ev.time >= t + config.indexDelayMs

\* a search that returns K peers out of a longer similarity list, one entry
\* of which is not indexed yet
C31_Witness ==
    /\ processes("entity_searches")
    /\ config.indexDelayMs > 0
    /\ LET me == Head(eventQueue).entityId
           peers == getVisiblePeers(me, entities[me].layer)
       IN  /\ Len(peers) = config.k
           /\ Len(similarities[me]) > config.k
           /\ \E i \in 1 .. Len(similarities[me]) :
                 ~entityStates[similarities[me][i]].indexed

----------------------------------------------------------------------------
(* getJitteryWait over the values of the seeded generator                  *)

WaitBounds == 0 .. 4
MaxDraws == 2

JitterInit ==
    /\ pc = "jitter"
    /\ config \in [followerWaitMinMs : WaitBounds, followerWaitMaxMs : WaitBounds]
    /\ entities = Null /\ similarities = Null
    /\ entityStates = Null /\ clusters = EmptyMap /\ eventQueue = <<>>
    /\ currentTime = 0 /\ nextClusterId = 1 /\ waitEnd = Null
    /\ logs = NoLogs /\ pending = {} /\ worker = NoWorkers
    /\ observed = [value |-> <<>>, waits |-> <<>>]

\* one call of getJitteryWait, for any value seed / 0x7fffffff
JitterDraw ==
    /\ pc = "jitter"
    /\ Len(observed.waits) < MaxDraws
    /\ \E r \in GeneratorValues :
          observed' = [value |-> <<r>>,
                       waits |-> Append(observed.waits, getJitteryWait(r))]
    /\ UNCHANGED <<pc, config, entities, similarities, entityStates, clusters,
                   eventQueue, currentTime, nextClusterId, waitEnd,
                   logs, pending, worker>>

JitterNext == JitterDraw

SpecJitter == JitterInit /\ [][JitterNext]_vars

\* C32: with followerWaitMinMs not greater than followerWaitMaxMs every
\* follower wait is at least followerWaitMinMs and at most followerWaitMaxMs,
\* for every value of the generator, the value 1 included
C32_WaitInRange ==
    (pc = "jitter" /\ config.followerWaitMinMs <= config.followerWaitMaxMs) =>
        \A i \in 1 .. Len(observed.waits) :
            /\ observed.waits[i] >= config.followerWaitMinMs
            /\ observed.waits[i] <= config.followerWaitMaxMs

\* the generator returned 1 and the wait is followerWaitMaxMs
C32_Witness ==
    /\ pc = "jitter"
    /\ config.followerWaitMinMs < config.followerWaitMaxMs
    /\ observed.value # <<>>
    /\ observed.value[1].num = observed.value[1].den
    /\ observed.waits[Len(observed.waits)] = config.followerWaitMaxMs

\* C33: the first call of a describe run sends the user prompt as it is; each
\* later call sends it with one RETRY section that holds the error of the
\* response just before and at most the first SliceLen characters of that
\* response; every call sends the same system prompt
C33_RetryPrompt ==
    pc = "describe_done" =>
        \A n \in 1 .. Len(observed.calls) :
            LET call == observed.calls[n] IN
            /\ call.system = "systemPrompt"
            /\ call.user.user = "userPrompt"
            /\ n = 1 => call.user.retry = <<>>
            /\ n > 1 =>
                  /\ Len(call.user.retry) = 1
                  /\ <<call.user.retry[1].error>> = parseError(config[n - 1])
                  /\ call.user.retry[1].response.kind = config[n - 1].kind
                  /\ call.user.retry[1].response.length = Min(config[n - 1].length, SliceLen)
                  /\ call.user.retry[1].response.length <= SliceLen

\* three calls: two malformed responses of different kinds, the second
\* longer than the slice
C33_Witness ==
    /\ pc = "describe_done"
    /\ Len(observed.calls) = JSON_PARSE_MAX_RETRIES
    /\ config[1].kind = "bad_json"
    /\ config[2].kind = "no_description"
    /\ config[1].length < SliceLen
    /\ config[2].length > SliceLen

\* the entities whose state names cluster c and carries the leader flag
flaggedLeaders(c) ==
    {e \in EntityIds : clusterOf(e) = c /\ entityStates[e].isClusterLeader}

\* C34: every existing cluster has the entity that created it among its
\* members, that entity is the only one flagged as leader for the cluster, and
\* an entity that joined another cluster or dissolved its own is not flagged
C34_OneLeaderPerCluster ==
    /\ \A c \in DOMAIN clusters :
          /\ clusters[c].leaderId \in clusters[c].members
          /\ flaggedLeaders(c) = {clusters[c].leaderId}
    /\ \A e \in EntityIds :
          entityStates[e].isClusterLeader => clusterOf(e) \in DOMAIN clusters

\* the run is over, a cluster was deleted by a leader that moved to another
\* cluster, and the cluster it moved to has kept its own leader
C34_Witness ==
    /\ pc = "done"
    /\ \E c \in DOMAIN clusters :
          /\ Cardinality(clusters[c].members) > 1
          /\ \E e \in clusters[c].members :
                /\ e # clusters[c].leaderId
                /\ \E d \in 1 .. nextClusterId - 1 :
                      d \notin DOMAIN clusters /\ d # c

\* the logs that hold a sent_to to log l
parentsOf(l) ==
    {p \in DOMAIN logs : \E i \in 1 .. Len(logs[p].sentTo) : logs[p].sentTo[i] = l}

\* every log is done and holds a sent_to for each child it expects
allChildrenSent ==
    \A l \in DOMAIN logs :
        /\ logs[l].status = "done"
        /\ getExpectedChildrenCount(logs[l]) >= 0
        /\ Len(logs[l].sentTo) >= getExpectedChildrenCount(logs[l])

\* C35: when no update is in flight, every log is done and has all its
\* sent_to children, and some log has two parents, the observer reports the tree complete: the shared
\* child counts for each of its parents
C35_SharedChildCounted ==
    pc = "observing" =>
        (/\ pending = {}
         /\ allChildrenSent
         /\ \E l \in DOMAIN logs : Cardinality(parentsOf(l)) = 2
         => isComplete)

----------------------------------------------------------------------------
(* The simulator under timings given on the command line *)

\* parseArgs takes every timing from the command line; the waits are chosen
\* on both sides of arrivalSpreadMs + recheckDelayMs, and the upper end of
\* the wait on both sides of the lower end
TimedSpreads == {0, 2}
TimedRechecks == {1}
TimedWaitMins == {2, 4}
TimedWaitMaxs == {1, 5}

TimedInit ==
    /\ pc = "init"
    /\ config \in [k : KValues, arrivalSpreadMs : TimedSpreads,
                   indexDelayMs : IndexDelays, recheckDelayMs : TimedRechecks,
                   followerWaitMinMs : TimedWaitMins,
                   followerWaitMaxMs : TimedWaitMaxs]
    /\ entities \in [EntityIds -> [type : EntityTypes, layer : Layers]]
    /\ similarities \in [EntityIds -> DistinctSeqs(EntityIds)]
    /\ SimulationData(entities, similarities)
    /\ entityStates = [e \in EntityIds |-> InitialEntityState]
    /\ clusters = EmptyMap
    /\ eventQueue = <<>>
    /\ currentTime = 0
    /\ nextClusterId = 1
    /\ waitEnd = [e \in EntityIds |-> NoWaitEnd]
    /\ logs = NoLogs /\ pending = {} /\ worker = NoWorkers /\ observed = Null

SpecTimed == TimedInit /\ [][Next]_vars

\* every leader waits until every entity has searched and rechecked
waitsOutlastArrivals ==
    config.followerWaitMinMs > config.arrivalSpreadMs + config.recheckDelayMs

\* the clusters of one member whose leader is at the layer
soloClusters(layer) ==
    {c \in DOMAIN clusters :
        /\ Cardinality(clusters[c].members) = 1
        /\ entities[clusters[c].leaderId].layer = layer}

----------------------------------------------------------------------------
(* Termination of run() *)

\* how many events of the type the run has processed for entity e
processed(type, e) ==
    Cardinality({i \in 1 .. Len(observed.trace) :
                    observed.trace[i].type = type /\ observed.trace[i].entityId = e})

\* no entity has processed an event of a type twice, and at the end of run()
\* each has arrived, been indexed and searched once, the queue is empty and
\* no entity is processing or waiting for followers
eventsOncePerEntity ==
    \A e \in EntityIds :
        /\ processed("entity_arrives", e) <= 1
        /\ processed("entity_indexed", e) <= 1
        /\ processed("entity_searches", e) <= 1
        /\ processed("entity_rechecks", e) <= 1
        /\ processed("follower_wait_ends", e) <= 1
        /\ pc = "done" =>
              /\ processed("entity_arrives", e) = 1
              /\ processed("entity_indexed", e) = 1
              /\ processed("entity_searches", e) = 1
              /\ eventQueue = <<>>
              /\ ~entityStates[e].processing
              /\ ~entityStates[e].waitingForFollowers

\* C37: run() terminates: its loop never processes more than five events
\* per entity (one entity_arrives, one entity_indexed, one entity_searches, at
\* most one entity_rechecks and at most one follower_wait_ends), every queued
\* event is one processEvent handles, and at the end the queue is empty and
\* no entity is processing or waiting for followers
C37_RunTerminates ==
    /\ eventsOncePerEntity
    /\ Len(observed.trace) <= 5 * Cardinality(EntityIds)
    /\ \A i \in 1 .. Len(eventQueue) :
          /\ eventQueue[i].entityId \in EntityIds
          /\ eventQueue[i].type \in {"entity_arrives", "entity_indexed", "entity_searches",
                                    "entity_rechecks", "follower_wait_ends"}

\* a finished run in which one entity rechecked and then led a cluster until
\* its wait ended, and another never led
C37_Witness ==
    /\ pc = "done"
    /\ \E e, f \in EntityIds :
          /\ processed("entity_rechecks", e) = 1
          /\ processed("follower_wait_ends", e) = 1
          /\ processed("follower_wait_ends", f) = 0

----------------------------------------------------------------------------
(* ClusterSimulation and the validator's copy of it, one after the other *)

V_seed == 42

\* the partition the clusters map holds
partition(cls) == {cls[c].members : c \in DOMAIN cls}

\* ClusterSimulation is given the validator's configuration and seed
RefineInit ==
    /\ pc = "init"
    /\ config = [k |-> V_k, arrivalSpreadMs |-> V_arrivalSpreadMs,
                 indexDelayMs |-> V_indexDelayMs, recheckDelayMs |-> V_recheckDelayMs,
                 followerWaitMinMs |-> V_followerWaitMinMs,
                 followerWaitMaxMs |-> V_followerWaitMaxMs,
                 seed |-> V_seed % (SeedMask + 1)]
    /\ entities \in [EntityIds -> [type : EntityTypes, layer : Layers]]
    /\ similarities \in [EntityIds -> DistinctSeqs(EntityIds)]
    /\ SimulationData(entities, similarities)
    /\ entityStates = [e \in EntityIds |-> InitialEntityState]
    /\ clusters = EmptyMap
    /\ eventQueue = <<>>
    /\ currentTime = 0
    /\ nextClusterId = 1
    /\ waitEnd = [e \in EntityIds |-> NoWaitEnd]
    /\ logs = NoLogs /\ pending = {} /\ worker = NoWorkers
    /\ observed = [seed |-> config.seed, trace |-> <<>>, first |-> <<>>]

\* the validator script starts on the same data once ClusterSimulation is
\* done; what ClusterSimulation ended with is kept for the comparison
ValidatorAfter ==
    /\ pc = "done"
    /\ pc' = "v_init"
    /\ entityStates' = [e \in EntityIds |-> [clusterId |-> Null, indexed |-> FALSE]]
    /\ clusters' = EmptyMap
    /\ eventQueue' = <<>>
    /\ currentTime' = 0
    /\ nextClusterId' = 1
    /\ observed' = [seed |-> config.seed, trace |-> observed.trace,
                    first |-> <<partition(clusters)>>]
    /\ UNCHANGED <<config, entities, similarities, waitEnd, logs, pending, worker>>

\* with the validator's timings the last search (before arrivalSpreadMs) comes
\* before the first entity_indexed (at indexDelayMs): no search finds a peer
\* and no recheck is ever scheduled, in either of the two
noRecheckQueued ==
    \A i \in 1 .. Len(eventQueue) : eventQueue[i].type \notin {"entity_rechecks", "rechecks"}

RefineNext ==
    \/ RunStart
    \/ ProcessEntityArrives
    \/ ProcessEntityIndexed
    \/ ProcessEntitySearches
    \/ ProcessFollowerWaitEnds
    \/ RunEnds
    \/ ValidatorAfter
    \/ ValidatorNext

SpecRefine == RefineInit /\ [][RefineNext]_vars

\* C38: on the same data, seed and configuration the validator's copy of the
\* simulation ends with the partition ClusterSimulation ended with
C38_SamePartition ==
    pc = "v_done" => partition(clusters) = observed.first[1]

----------------------------------------------------------------------------
(* shuffle and the arrival schedule over the values seed / 0x7fffffff *)

\* the entity list and the values random() returns to shuffle, any of those
\* the mask lets through
ShuffleInit ==
    /\ pc = "shuffle"
    /\ config \in [array : DistinctSeqs(EntityIds),
                   values : [1 .. Cardinality(EntityIds) - 1 -> GeneratorValues],
                   arrivalSpreadMs : ArrivalSpreads]
    /\ entities = Null /\ similarities = Null
    /\ entityStates = Null /\ clusters = EmptyMap /\ eventQueue = <<>>
    /\ currentTime = 0 /\ nextClusterId = 1 /\ waitEnd = Null
    /\ logs = NoLogs /\ pending = {} /\ worker = NoWorkers
    /\ observed = <<>>

\* run() up to its event loop: shuffle, then one scheduleEvent per entry
ShuffleAndSchedule ==
    /\ pc = "shuffle"
    /\ pc' = "shuffled"
    /\ LET shuffled == shuffleFrom(config.array, Len(config.array) - 1, config.values)
       IN /\ observed' = <<shuffled>>
          /\ eventQueue' = scheduleArrivals(eventQueue, shuffled, 0)
    /\ UNCHANGED <<config, entities, similarities, entityStates, clusters,
                   currentTime, nextClusterId, waitEnd, logs, pending, worker>>

ShuffleNext == ShuffleAndSchedule

SpecShuffle == ShuffleInit /\ [][ShuffleNext]_vars

====
